---- MODULE Spec2Model ----
(***************************************************************************)
(* PC Builder compatibility engine and build persistence gateway of        *)
(* itrepairhub.pk_server (src/controllers/pcBuilder.controller.js), with   *)
(* the mysql2 connection pool it talks to (src/config/db.config.js).       *)
(*                                                                         *)
(* Two specifications share the module:                                    *)
(*   SpecV  - one POST /validate or /calculate-price request evaluated     *)
(*            against a catalog snapshot and a list of active rules;       *)
(*   SpecDb - concurrent POST /checkout requests issuing their statements  *)
(*            through the shared pool.                                     *)
(***************************************************************************)
EXTENDS Integers, Sequences, FiniteSets, TLC

(***************************************************************************)
(* Bounds                                                                  *)
(***************************************************************************)
\* longest list of active rules returned by the rule store
MaxRules == 2
\* longest list of component references in one slot
MaxItems == 2
\* most slots filled in one submitted configuration
MaxSlots == 2
\* connections the pool has open
NumConns == 2
\* requests that reach the persistence gateway
MaxReq == 2
\* statements the store may reject in one run
MaxFail == 1

(***************************************************************************)
(* JavaScript values held in specification maps                            *)
(***************************************************************************)
NoVal == [t |-> "none", s |-> "", l |-> <<>>, n |-> 0]
Str(x) == [t |-> "str", s |-> x, l |-> <<>>, n |-> 0]
Lst(x) == [t |-> "list", s |-> "", l |-> x, n |-> 0]
Num(x) == [t |-> "num", s |-> "", l |-> <<>>, n |-> x]

\* JS truthiness: undefined, "" and 0 are falsy; every array is truthy
Truthy(v) ==
  CASE v.t = "none" -> FALSE
    [] v.t = "str" -> v.s # ""
    [] v.t = "num" -> v.n # 0
    [] OTHER -> TRUE

\* a || b
OrElse(a, b) == IF Truthy(a) THEN a ELSE b

\* v.length > 0 : defined for strings and arrays, undefined (false) otherwise
LengthPositive(v) ==
  CASE v.t = "str" -> v.s # ""
    [] v.t = "list" -> Len(v.l) > 0
    [] OTHER -> FALSE

\* Array.isArray(list) ? list.includes(x) : false
IncludesStrict(list, x) ==
  /\ list.t = "list"
  /\ x.t = "str"
  /\ \E i \in 1..Len(list.l) : list.l[i] = x.s

\* parseFloat: NaN is kept apart from every number
NaN == -1
ParseFloat(v) == IF v.t = "num" THEN v.n ELSE NaN
NumLt(a, b) == a # NaN /\ b # NaN /\ a < b
NumAdd(a, b) == IF a = NaN \/ b = NaN THEN NaN ELSE a + b

(***************************************************************************)
(* Catalog snapshot: products.specifications of the rows the requests use  *)
(***************************************************************************)
Fields == {"socket", "sock", "form_factor", "supported_form_factors",
           "form_factors", "wattage", "tdp", "power_consumption",
           "supported_memory_types", "memory_types", "memory_type", "type",
           "supported_storage_interfaces", "storage_interfaces",
           "interface", "connection"}

NoSpecs == [f \in Fields |-> NoVal]

\* specifications of product id p, parsed (JSON.parse(product.specifications))
Specs(overrides) == [f \in Fields |-> IF f \in DOMAIN overrides THEN overrides[f] ELSE NoVal]

Catalog ==
  \* CPUs
  1 :> Specs([socket |-> Str("AM4"), tdp |-> Num(480)]) @@
  2 :> Specs([socket |-> Str("LGA1700"), sock |-> Str("AM4"), tdp |-> Num(500)]) @@
  3 :> Specs([socket |-> Str(""), power_consumption |-> Num(95)]) @@
  \* motherboards
  11 :> Specs([socket |-> Str("AM4"), form_factor |-> Str("ATX"),
               supported_memory_types |-> Lst(<<"DDR4">>),
               supported_storage_interfaces |-> Lst(<<"SATA", "NVMe">>)]) @@
  12 :> Specs([socket |-> Str("am4"), sock |-> Str("LGA1700"),
               form_factor |-> Str("mATX"),
               memory_types |-> Lst(<<"DDR5">>),
               storage_interfaces |-> Lst(<<"NVMe">>)]) @@
  13 :> Specs([supported_memory_types |-> Lst(<<>>),
               memory_types |-> Lst(<<"DDR4">>),
               supported_storage_interfaces |-> Str("SATA")]) @@
  \* cases
  21 :> Specs([supported_form_factors |-> Lst(<<"ATX", "ITX">>)]) @@
  22 :> Specs([form_factors |-> Lst(<<"mATX">>)]) @@
  23 :> Specs([form_factor |-> Lst(<<"ITX">>)]) @@
  24 :> Specs([supported_form_factors |-> Str("ATX")]) @@
  25 :> Specs([supported_form_factors |-> Lst(<<>>), form_factors |-> Lst(<<"ITX">>)]) @@
  \* power supplies
  31 :> Specs([wattage |-> Num(600)]) @@
  32 :> Specs([wattage |-> Num(500)]) @@
  33 :> Specs([wattage |-> Num(400)]) @@
  34 :> NoSpecs @@
  35 :> Specs([wattage |-> Num(20), tdp |-> Num(72)]) @@
  \* memory modules
  41 :> Specs([memory_type |-> Str("DDR4"), power_consumption |-> Num(10)]) @@
  42 :> Specs([memory_type |-> Str("DDR5"), tdp |-> Num(50)]) @@
  43 :> Specs([type |-> Str("DDR3")]) @@
  \* storage devices
  51 :> Specs([interface |-> Str("SATA"), tdp |-> Num(10)]) @@
  52 :> Specs([connection |-> Str("IDE")])

\* specifications[field]: undefined when the key is not in the map
Get(specs, field) == IF field \in DOMAIN specs THEN specs[field] ELSE NoVal

\* a !== b : two arrays are never the same object
StrictNeq(a, b) == a.t = "list" \/ b.t = "list" \/ a # b

\* an identifier with no row in products
UnknownId == 99

(***************************************************************************)
(* Compatibility rules: rows of pc_compatibility_rules with is_active = 1  *)
(***************************************************************************)
CfgFields == {"max_quantity", "component_key", "cpu_key", "motherboard_key",
              "socket_field", "case_key", "form_factor_field", "psu_key",
              "power_field", "components", "ram_key", "memory_type_field",
              "storage_key", "interface_field"}

\* JSON.parse(rule.rule_config); a blob that does not parse gives {}
RuleCfg(fields) == [f \in CfgFields |-> IF f \in DOMAIN fields THEN fields[f] ELSE NoVal]

Rule(id, type, fields) ==
  [id |-> id, rule_type |-> type, rule_name |-> type, error_message |-> id,
   rule_config |-> RuleCfg(fields)]

RuleTable ==
  { Rule(1, "max_quantity", [max_quantity |-> Num(1), component_key |-> Str("ram")]),
    Rule(2, "socket_compatibility",
         [cpu_key |-> Str("cpu"), motherboard_key |-> Str("motherboard"),
          socket_field |-> Str("socket")]),
    Rule(3, "socket_compatibility",
         [cpu_key |-> Str("cpu"), motherboard_key |-> Str("motherboard"),
          socket_field |-> Str("sock")]),
    Rule(4, "form_factor",
         [motherboard_key |-> Str("motherboard"), case_key |-> Str("case"),
          form_factor_field |-> Str("form_factor")]),
    Rule(5, "power_requirement",
         [psu_key |-> Str("psu"), power_field |-> Str("wattage")]),
    Rule(6, "power_requirement",
         [psu_key |-> Str("psu"), power_field |-> Str("tdp"),
          components |-> Lst(<<"psu", "ram">>)]),
    Rule(7, "memory_type",
         [ram_key |-> Str("ram"), motherboard_key |-> Str("motherboard"),
          memory_type_field |-> Str("memory_type")]),
    Rule(8, "storage_interface",
         [storage_key |-> Str("storage"), motherboard_key |-> Str("motherboard"),
          interface_field |-> Str("interface")]),
    Rule(9, "custom", [component_key |-> Str("cpu")]),
    \* blobs lacking a required field, or unparsable
    Rule(10, "socket_compatibility",
         [cpu_key |-> Str("cpu"), motherboard_key |-> Str("motherboard")]),
    Rule(11, "memory_type", <<>>),
    \* a maximum of zero: the slot is not allowed at all
    Rule(12, "max_quantity", [max_quantity |-> Num(0), component_key |-> Str("cpu")]),
    \* more blobs lacking a required field
    Rule(13, "max_quantity", [max_quantity |-> Num(1)]),
    Rule(14, "form_factor",
         [motherboard_key |-> Str("motherboard"), case_key |-> Str("case")]),
    Rule(15, "power_requirement", [psu_key |-> Str("psu")]),
    Rule(16, "storage_interface",
         [storage_key |-> Str("storage"), motherboard_key |-> Str("motherboard")]) }

(***************************************************************************)
(* Submitted configurations                                                *)
(***************************************************************************)
Absent == [t |-> "absent", id |-> 0, items |-> <<>>]
Ref(i) == [t |-> "ref", id |-> i, items |-> <<>>]
Refs(is) == [t |-> "list", id |-> 0, items |-> is]

\* variant: a key the configuration lacks reads the first slot submitted
LookupOrFirst(configuration, key) ==
  IF \E i \in 1..Len(configuration.entries) : configuration.entries[i].key = key
  THEN LET i == CHOOSE j \in 1..Len(configuration.entries) :
                   configuration.entries[j].key = key
       IN configuration.entries[i].val
  ELSE IF configuration.entries # <<>> THEN configuration.entries[1].val
  ELSE Absent

\* configuration[key]
Lookup(configuration, key) ==
  IF \E i \in 1..Len(configuration.entries) : configuration.entries[i].key = key
  THEN LET i == CHOOSE j \in 1..Len(configuration.entries) :
                   configuration.entries[j].key = key
       IN configuration.entries[i].val
  ELSE Absent

\* Array.isArray(component) ? component : [component], as identifiers;
\* an item that is null or has no id is identifier 0
ItemsOf(component) ==
  IF component.t = "list" THEN component.items ELSE <<component.id>>

\* variant: a list stands for its first member
IdOfFirstItem(component) ==
  IF component.t = "ref" THEN component.id
  ELSE IF component.t = "list" /\ component.items # <<>> THEN component.items[1]
  ELSE 0

\* component.id of a slot value: arrays and missing slots have none
IdOf(component) == IF component.t = "ref" THEN component.id ELSE 0

\* productDetailsMap[id]: the row exists and was fetched
Resolved(productDetailsMap, id) == id # 0 /\ id \in DOMAIN productDetailsMap

(***************************************************************************)
(* Type-specific checks.  Each takes the lists accumulated so far and      *)
(* returns them with this rule's violations pushed at the end.             *)
(***************************************************************************)
Violation(rule, key) ==
  [rule_id |-> rule.id, rule_name |-> rule.rule_name,
   message |-> rule.error_message, component_key |-> key]

validateMaxQuantity(rule, ruleConfig, configuration, errors) ==
  LET max_quantity == ruleConfig["max_quantity"]
      component_key == ruleConfig["component_key"]
      component == Lookup(configuration, component_key.s)
      count == IF component.t = "list" THEN Len(component.items) ELSE 1
  IN IF ~Truthy(max_quantity) \/ ~Truthy(component_key) THEN errors
     ELSE IF component.t # "absent" /\ count > max_quantity.n
          THEN Append(errors, Violation(rule, component_key.s))
          ELSE errors

\* variant: the configured field name is ignored
SocketOfDefaultField(specs, socket_field) == specs["socket"]

\* specifications[socket_field] || specifications.socket
SocketOf(specs, socket_field) == OrElse(Get(specs, socket_field), specs["socket"])

\* variant: a blob without socket_field is still evaluated
SocketRuleSkippedKeysOnly(ruleConfig) ==
  ~Truthy(ruleConfig["cpu_key"]) \/ ~Truthy(ruleConfig["motherboard_key"])

\* if (!cpu_key || !motherboard_key || !socket_field) return;
SocketRuleSkipped(ruleConfig) ==
  \/ ~Truthy(ruleConfig["cpu_key"])
  \/ ~Truthy(ruleConfig["motherboard_key"])
  \/ ~Truthy(ruleConfig["socket_field"])

validateSocketCompatibility(rule, ruleConfig, configuration, productDetailsMap, errors) ==
  LET cpu_key == ruleConfig["cpu_key"]
      motherboard_key == ruleConfig["motherboard_key"]
      socket_field == ruleConfig["socket_field"]
      cpu == Lookup(configuration, cpu_key.s)
      motherboard == Lookup(configuration, motherboard_key.s)
  IN IF SocketRuleSkipped(ruleConfig)
     THEN errors
     ELSE IF /\ IdOf(cpu) # 0 /\ IdOf(motherboard) # 0
             /\ Resolved(productDetailsMap, IdOf(cpu))
             /\ Resolved(productDetailsMap, IdOf(motherboard))
          THEN LET cpuSpecs == productDetailsMap[IdOf(cpu)]
                   moboSpecs == productDetailsMap[IdOf(motherboard)]
                   cpuSocket == SocketOf(cpuSpecs, socket_field.s)
                   moboSocket == SocketOf(moboSpecs, socket_field.s)
               IN IF /\ Truthy(cpuSocket) /\ Truthy(moboSocket)
                     /\ StrictNeq(cpuSocket, moboSocket)
                  THEN Append(errors, Violation(rule, motherboard_key.s))
                  ELSE errors
          ELSE errors

\* moboDetails.specifications[form_factor_field] || ....form_factor
MoboFormFactorOf(moboSpecs, form_factor_field) ==
  OrElse(Get(moboSpecs, form_factor_field), moboSpecs["form_factor"])

\* variant: only the fallback key is read
CaseFormFactorsOfFallbackOnly(caseSpecs) == OrElse(caseSpecs["form_factors"], Lst(<<>>))

\* caseDetails.specifications.supported_form_factors || ....form_factors || []
CaseFormFactorsOf(caseSpecs) ==
  OrElse(caseSpecs["supported_form_factors"],
    OrElse(caseSpecs["form_factors"], Lst(<<>>)))

validateFormFactor(rule, ruleConfig, configuration, productDetailsMap, errors) ==
  LET motherboard_key == ruleConfig["motherboard_key"]
      case_key == ruleConfig["case_key"]
      form_factor_field == ruleConfig["form_factor_field"]
      motherboard == Lookup(configuration, motherboard_key.s)
      caseComponent == Lookup(configuration, case_key.s)
  IN IF ~Truthy(motherboard_key) \/ ~Truthy(case_key) \/ ~Truthy(form_factor_field)
     THEN errors
     ELSE IF /\ IdOf(motherboard) # 0 /\ IdOf(caseComponent) # 0
             /\ Resolved(productDetailsMap, IdOf(motherboard))
             /\ Resolved(productDetailsMap, IdOf(caseComponent))
          THEN LET moboSpecs == productDetailsMap[IdOf(motherboard)]
                   caseSpecs == productDetailsMap[IdOf(caseComponent)]
                   moboFormFactor == MoboFormFactorOf(moboSpecs, form_factor_field.s)
                   caseFormFactors == CaseFormFactorsOf(caseSpecs)
               IN IF /\ Truthy(moboFormFactor) /\ LengthPositive(caseFormFactors)
                     /\ ~IncludesStrict(caseFormFactors, moboFormFactor)
                  THEN Append(errors, Violation(rule, case_key.s))
                  ELSE errors
          ELSE errors

\* variant: without the final || 0, a PSU with no rating is not a number
PsuWattageOfUnrated(psuSpecs, power_field) ==
  ParseFloat(OrElse(Get(psuSpecs, power_field), psuSpecs["wattage"]))

\* parseFloat(specifications[power_field] || specifications.wattage || 0)
PsuWattageOf(psuSpecs, power_field) ==
  ParseFloat(OrElse(Get(psuSpecs, power_field), OrElse(psuSpecs["wattage"], Num(0))))

\* parseFloat(specifications[power_field] || ....tdp || ....power_consumption || 0)
DrawOf(specs, power_field) ==
  ParseFloat(OrElse(Get(specs, power_field),
               OrElse(specs["tdp"], OrElse(specs["power_consumption"], Num(0)))))

\* variant: a supply rated exactly at the draw is a hard violation
PowerVerdictInclusive(psuWattage, totalPower) ==
  IF psuWattage # NaN /\ totalPower # NaN /\ psuWattage <= totalPower /\ totalPower > 0
  THEN "error"
  ELSE IF psuWattage # NaN /\ totalPower # NaN /\ 10 * psuWattage < 12 * totalPower
       THEN "warning"
       ELSE "ok"

\* the comparison of the rated wattage with the draw and with draw * 1.2
PowerVerdict(psuWattage, totalPower) ==
  IF NumLt(psuWattage, totalPower) THEN "error"
  ELSE IF psuWattage # NaN /\ totalPower # NaN /\ 10 * psuWattage < 12 * totalPower
       THEN "warning"
       ELSE "ok"

\* variant: only the first item of a slot is counted
SumItemsFirstOnly(items, power_field, productDetailsMap, totalPower) ==
  IF items = <<>> THEN totalPower
  ELSE NumAdd(totalPower,
              IF Resolved(productDetailsMap, Head(items))
              THEN DrawOf(productDetailsMap[Head(items)], power_field)
              ELSE 0)

\* power drawn by the items of one slot, added to the running total
RECURSIVE SumItems(_, _, _, _)
SumItems(items, power_field, productDetailsMap, totalPower) ==
  IF items = <<>> THEN totalPower
  ELSE LET id == Head(items)
           power == IF Resolved(productDetailsMap, id)
                    THEN DrawOf(productDetailsMap[id], power_field)
                    ELSE 0
       IN SumItems(Tail(items), power_field, productDetailsMap,
                   NumAdd(totalPower, power))

\* componentKeys.forEach(...) of validatePowerRequirement
RECURSIVE SumKeys(_, _, _, _, _, _)
SumKeys(componentKeys, psu_key, power_field, configuration, productDetailsMap, totalPower) ==
  IF componentKeys = <<>> THEN totalPower
  ELSE LET key == Head(componentKeys)
           component == Lookup(configuration, key)
           next == IF key = psu_key \/ component.t = "absent" THEN totalPower
                   ELSE SumItems(ItemsOf(component), power_field,
                                 productDetailsMap, totalPower)
       IN SumKeys(Tail(componentKeys), psu_key, power_field, configuration,
                  productDetailsMap, next)

\* Object.keys(configuration)
ObjectKeys(configuration) ==
  [i \in 1..Len(configuration.entries) |-> configuration.entries[i].key]

\* `PSU wattage (${psuWattage}W) is close to required power (${Math.ceil(requiredPower)}W)...`
PowerWarningMessage(psuWattage, totalPower) ==
  [wattage |-> psuWattage, required |-> (12 * totalPower + 9) \div 10]

validatePowerRequirement(rule, ruleConfig, configuration, productDetailsMap, errors, warnings) ==
  LET psu_key == ruleConfig["psu_key"]
      power_field == ruleConfig["power_field"]
      components == ruleConfig["components"]
      psu == Lookup(configuration, psu_key.s)
      unchanged == [errors |-> errors, warnings |-> warnings]
  IN IF ~Truthy(psu_key) \/ ~Truthy(power_field) THEN unchanged
     ELSE IF IdOf(psu) = 0 THEN unchanged
     ELSE IF ~Resolved(productDetailsMap, IdOf(psu)) THEN unchanged
     ELSE LET psuSpecs == productDetailsMap[IdOf(psu)]
              psuWattage == PsuWattageOf(psuSpecs, power_field.s)
              componentKeys == IF Truthy(components) THEN components.l
                               ELSE ObjectKeys(configuration)
              totalPower == SumKeys(componentKeys, psu_key.s, power_field.s,
                                    configuration, productDetailsMap, 0)
              verdict == PowerVerdict(psuWattage, totalPower)
          IN IF verdict = "error"
             THEN [errors |-> Append(errors, Violation(rule, psu_key.s)),
                   warnings |-> warnings]
             ELSE IF verdict = "warning"
             THEN [errors |-> errors,
                   warnings |-> Append(warnings,
                      [rule_id |-> rule.id, rule_name |-> rule.rule_name,
                       message |-> PowerWarningMessage(psuWattage, totalPower),
                       component_key |-> psu_key.s])]
             ELSE unchanged

\* specifications.supported_memory_types || ....memory_types || []
SupportedMemoryTypesOf(moboSpecs) ==
  OrElse(moboSpecs["supported_memory_types"],
    OrElse(moboSpecs["memory_types"], Lst(<<>>)))

\* specifications[memory_type_field] || ....memory_type || ....type
RamTypeOf(ramSpecs, memory_type_field) ==
  OrElse(Get(ramSpecs, memory_type_field),
    OrElse(ramSpecs["memory_type"], ramSpecs["type"]))

\* specifications.supported_storage_interfaces || ....storage_interfaces || []
SupportedInterfacesOf(moboSpecs) ==
  OrElse(moboSpecs["supported_storage_interfaces"],
    OrElse(moboSpecs["storage_interfaces"], Lst(<<>>)))

\* specifications[interface_field] || ....interface || ....connection
StorageInterfaceOf(storageSpecs, interface_field) ==
  OrElse(Get(storageSpecs, interface_field),
    OrElse(storageSpecs["interface"], storageSpecs["connection"]))

\* variant: the loop reports the first unsupported item only
RECURSIVE CheckRamItemsFirstOnly(_, _, _, _, _, _, _)
CheckRamItemsFirstOnly(ramItems, memory_type_field, supportedMemoryTypes, rule, ram_key, productDetailsMap, errors) ==
  IF ramItems = <<>> THEN errors
  ELSE LET id == Head(ramItems)
           ramType == RamTypeOf(productDetailsMap[id], memory_type_field)
       IN IF /\ Resolved(productDetailsMap, id)
             /\ Truthy(ramType) /\ LengthPositive(supportedMemoryTypes)
             /\ ~IncludesStrict(supportedMemoryTypes, ramType)
          THEN Append(errors, Violation(rule, ram_key))
          ELSE CheckRamItemsFirstOnly(Tail(ramItems), memory_type_field,
                                      supportedMemoryTypes, rule, ram_key,
                                      productDetailsMap, errors)

\* ramItems.forEach(...): one violation per unsupported item
RECURSIVE CheckRamItems(_, _, _, _, _, _, _)
CheckRamItems(ramItems, memory_type_field, supportedMemoryTypes, rule, ram_key, productDetailsMap, errors) ==
  IF ramItems = <<>> THEN errors
  ELSE LET id == Head(ramItems)
           ramType == RamTypeOf(productDetailsMap[id], memory_type_field)
           pushed == IF /\ Resolved(productDetailsMap, id)
                        /\ Truthy(ramType) /\ LengthPositive(supportedMemoryTypes)
                        /\ ~IncludesStrict(supportedMemoryTypes, ramType)
                     THEN Append(errors, Violation(rule, ram_key))
                     ELSE errors
       IN CheckRamItems(Tail(ramItems), memory_type_field, supportedMemoryTypes,
                        rule, ram_key, productDetailsMap, pushed)

validateMemoryType(rule, ruleConfig, configuration, productDetailsMap, errors) ==
  LET ram_key == ruleConfig["ram_key"]
      motherboard_key == ruleConfig["motherboard_key"]
      memory_type_field == ruleConfig["memory_type_field"]
      ram == Lookup(configuration, ram_key.s)
      motherboard == Lookup(configuration, motherboard_key.s)
  IN IF ~Truthy(ram_key) \/ ~Truthy(motherboard_key) \/ ~Truthy(memory_type_field)
     THEN errors
     ELSE IF ram.t = "absent" \/ motherboard.t = "absent" THEN errors
     ELSE IF ~Resolved(productDetailsMap, IdOf(motherboard)) THEN errors
     ELSE LET moboSpecs == productDetailsMap[IdOf(motherboard)]
              supportedMemoryTypes == SupportedMemoryTypesOf(moboSpecs)
          IN CheckRamItems(ItemsOf(ram), memory_type_field.s, supportedMemoryTypes,
                           rule, ram_key.s, productDetailsMap, errors)

\* storageItems.forEach(...): one violation per unsupported item
RECURSIVE CheckStorageItems(_, _, _, _, _, _, _)
CheckStorageItems(storageItems, interface_field, supportedInterfaces, rule, storage_key, productDetailsMap, errors) ==
  IF storageItems = <<>> THEN errors
  ELSE LET id == Head(storageItems)
           storageInterface == StorageInterfaceOf(productDetailsMap[id], interface_field)
           pushed == IF /\ Resolved(productDetailsMap, id)
                        /\ Truthy(storageInterface)
                        /\ LengthPositive(supportedInterfaces)
                        /\ ~IncludesStrict(supportedInterfaces, storageInterface)
                     THEN Append(errors, Violation(rule, storage_key))
                     ELSE errors
       IN CheckStorageItems(Tail(storageItems), interface_field, supportedInterfaces,
                            rule, storage_key, productDetailsMap, pushed)

validateStorageInterface(rule, ruleConfig, configuration, productDetailsMap, errors) ==
  LET storage_key == ruleConfig["storage_key"]
      motherboard_key == ruleConfig["motherboard_key"]
      interface_field == ruleConfig["interface_field"]
      storage == Lookup(configuration, storage_key.s)
      motherboard == Lookup(configuration, motherboard_key.s)
  IN IF ~Truthy(storage_key) \/ ~Truthy(motherboard_key) \/ ~Truthy(interface_field)
     THEN errors
     ELSE IF storage.t = "absent" \/ motherboard.t = "absent" THEN errors
     ELSE IF ~Resolved(productDetailsMap, IdOf(motherboard)) THEN errors
     ELSE LET moboSpecs == productDetailsMap[IdOf(motherboard)]
              supportedInterfaces == SupportedInterfacesOf(moboSpecs)
          IN CheckStorageItems(ItemsOf(storage), interface_field.s, supportedInterfaces,
                               rule, storage_key.s, productDetailsMap, errors)

\* placeholder in the source: pushes nothing
validateCustomRule(rule, ruleConfig, configuration, productDetailsMap, errors, warnings) ==
  [errors |-> errors, warnings |-> warnings]

(***************************************************************************)
(* POST /validate                                                          *)
(***************************************************************************)
\* !configuration || typeof configuration !== 'object'
\* (typeof [] is 'object': an array passes this test)
NotAnObject(configuration) == configuration.kind \in {"missing", "scalar"}

\* identifiers gathered from Object.values(configuration), in order
RECURSIVE CollectIds(_)
CollectIds(entries) ==
  IF entries = <<>> THEN <<>>
  ELSE SelectSeq(ItemsOf(Head(entries).val), LAMBDA id : id # 0)
       \o CollectIds(Tail(entries))

\* variant: an identifier without a row gets the details of product 43
FetchProductDetailsDefaulting(ids) ==
  [id \in {ids[i] : i \in 1..Len(ids)} |->
     IF id \in DOMAIN Catalog THEN Catalog[id] ELSE Catalog[43]]

\* SELECT ... FROM products WHERE id IN (...), keyed by id, specifications parsed
FetchProductDetails(ids) ==
  [id \in {ids[i] : i \in 1..Len(ids)} \cap DOMAIN Catalog |-> Catalog[id]]

\* the switch on rule.rule_type
Dispatch(rule, configuration, productDetailsMap, errors, warnings) ==
  LET ruleConfig == rule.rule_config
      onlyErrors(e) == [errors |-> e, warnings |-> warnings]
  IN CASE rule.rule_type = "max_quantity" ->
            onlyErrors(validateMaxQuantity(rule, ruleConfig, configuration, errors))
       [] rule.rule_type = "socket_compatibility" ->
            onlyErrors(validateSocketCompatibility(rule, ruleConfig, configuration,
                                                   productDetailsMap, errors))
       [] rule.rule_type = "form_factor" ->
            onlyErrors(validateFormFactor(rule, ruleConfig, configuration,
                                          productDetailsMap, errors))
       [] rule.rule_type = "power_requirement" ->
            validatePowerRequirement(rule, ruleConfig, configuration,
                                     productDetailsMap, errors, warnings)
       [] rule.rule_type = "memory_type" ->
            onlyErrors(validateMemoryType(rule, ruleConfig, configuration,
                                          productDetailsMap, errors))
       [] rule.rule_type = "storage_interface" ->
            onlyErrors(validateStorageInterface(rule, ruleConfig, configuration,
                                                productDetailsMap, errors))
       [] rule.rule_type = "custom" ->
            validateCustomRule(rule, ruleConfig, configuration, productDetailsMap,
                               errors, warnings)
       [] OTHER -> [errors |-> errors, warnings |-> warnings]

\* variant: the loop stops at the first rule that reported an error
RECURSIVE ApplyRulesUntilError(_, _, _, _)
ApplyRulesUntilError(ruleRows, configuration, productDetailsMap, acc) ==
  IF ruleRows = <<>> \/ Len(acc.errors) > 0 THEN acc
  ELSE LET rule == Head(ruleRows)
           r == Dispatch(rule, configuration, productDetailsMap,
                         acc.errors, acc.warnings)
       IN ApplyRulesUntilError(Tail(ruleRows), configuration, productDetailsMap,
                     [errors |-> r.errors, warnings |-> r.warnings,
                      dispatched |-> Append(acc.dispatched, rule.id)])

\* ruleRows.forEach(rule => ...): the accumulators thread through every rule
RECURSIVE ApplyRules(_, _, _, _)
ApplyRules(ruleRows, configuration, productDetailsMap, acc) ==
  IF ruleRows = <<>> THEN acc
  ELSE LET rule == Head(ruleRows)
           r == Dispatch(rule, configuration, productDetailsMap,
                         acc.errors, acc.warnings)
       IN ApplyRules(Tail(ruleRows), configuration, productDetailsMap,
                     [errors |-> r.errors, warnings |-> r.warnings,
                      dispatched |-> Append(acc.dispatched, rule.id)])

\* variant: a warning also clears the flag
IsValidWithoutWarnings(errors, warnings) == Len(errors) = 0 /\ Len(warnings) = 0

\* valid: errors.length === 0
IsValid(errors, warnings) == Len(errors) = 0

\* the handler's result: response body, the tables it queried and the rules
\* it dispatched
validateConfiguration(configuration, ruleRows) ==
  IF NotAnObject(configuration)
  THEN [status |-> 400, success |-> FALSE, valid |-> FALSE,
        errors |-> <<>>, warnings |-> <<>>,
        reads |-> <<>>, dispatched |-> <<>>]
  ELSE LET componentProductIds == CollectIds(configuration.entries)
           productDetailsMap == IF Len(componentProductIds) > 0
                                THEN FetchProductDetails(componentProductIds)
                                ELSE <<>>
           acc == ApplyRules(ruleRows, configuration, productDetailsMap,
                             [errors |-> <<>>, warnings |-> <<>>, dispatched |-> <<>>])
       IN [status |-> 200, success |-> TRUE,
           valid |-> IsValid(acc.errors, acc.warnings),
           errors |-> acc.errors, warnings |-> acc.warnings,
           reads |-> <<"pc_compatibility_rules">> \o
                     (IF Len(componentProductIds) > 0 THEN <<"products">> ELSE <<>>),
           dispatched |-> acc.dispatched]

\* the catch block: a query rejected by the store
validateConfigurationStoreError ==
  [status |-> 500, success |-> FALSE, valid |-> FALSE,
   errors |-> <<"Validation error occurred">>, warnings |-> <<>>,
   reads |-> <<"pc_compatibility_rules">>, dispatched |-> <<>>]

(***************************************************************************)
(* POST /calculate-price.  Money is held in hundredths.                    *)
(***************************************************************************)
\* products.price and products.discount_percentage of the catalog rows
\* (5.50 and 10.50 at 1% land half-way between two cents; 100% is free)
PriceRow(id) ==
  [id |-> id,
   price |-> CASE id = 43 -> 550 [] id = 52 -> 1050 [] OTHER -> 1000 * id + 99,
   discount_percentage |->
     CASE id \in {2, 12, 42} -> 10
       [] id = 51 -> 25
       [] id \in {43, 52} -> 1
       [] id = 25 -> 100
       [] OTHER -> 0]

\* originalPrice * (1 - discountPercentage / 100) is a product of IEEE-754
\* doubles.  It differs from the exact value by far less than a cent, so
\* toFixed(2) gives the nearest cent, except where the exact value lies
\* half-way between two cents: there the double is either at or above the
\* half-way point (toFixed rounds up) or below it (toFixed rounds down).
\* These are the <<price, discount>> pairs of PriceRow whose double lies
\* below: 10.5 * (1 - 1 / 100) = 10.394999999999999573674 (5.5 * 0.99 is
\* 5.4450000000000002842, above).
DoubleBelowHalfCent == {<<1050, 1>>}

\* parseFloat((discountPercentage > 0 ? price * (1 - d / 100) : price).toFixed(2))
DiscountedPrice(originalPrice, discountPercentage) ==
  IF discountPercentage > 0
  THEN IF <<originalPrice, discountPercentage>> \in DoubleBelowHalfCent
       THEN (originalPrice * (100 - discountPercentage)) \div 100
       ELSE (originalPrice * (100 - discountPercentage) + 50) \div 100
  ELSE originalPrice

\* what SELECT id, price, discount_percentage FROM products WHERE id IN (...)
\* can return: every matching row once, in any order (rows named by id)
ProductRowOrders(ids) ==
  LET found == {ids[i] : i \in 1..Len(ids)} \cap DOMAIN Catalog
  IN {rows \in [1..Cardinality(found) -> found] :
        \A i, j \in 1..Cardinality(found) : i # j => rows[i] # rows[j]}

\* variant: only the first row returned is kept
FetchPriceMapFirstRow(productRows) ==
  IF productRows = <<>> THEN <<>>
  ELSE LET product == PriceRow(Head(productRows))
       IN (product.id :>
             [original_price |-> product.price,
              discounted_price |-> DiscountedPrice(product.price,
                                                   product.discount_percentage),
              discount_percentage |-> product.discount_percentage])

\* productRows.forEach(product => { priceMap[product.id] = {...} })
RECURSIVE FetchPriceMap(_)
FetchPriceMap(productRows) ==
  IF productRows = <<>> THEN <<>>
  ELSE LET product == PriceRow(Head(productRows))
       IN FetchPriceMap(Tail(productRows)) @@
          (product.id :>
             [original_price |-> product.price,
              discounted_price |-> DiscountedPrice(product.price,
                                                   product.discount_percentage),
              discount_percentage |-> product.discount_percentage])

\* variant: an identifier already on a line of the breakdown is not priced again
RECURSIVE PriceItemsDistinct(_, _, _, _)
PriceItemsDistinct(items, componentKey, priceMap, breakdown) ==
  IF items = <<>> THEN breakdown
  ELSE LET id == Head(items)
           line == [component_key |-> componentKey, product_id |-> id,
                    quantity |-> 1,
                    unit_price |-> priceMap[id].discounted_price,
                    original_price |-> priceMap[id].original_price,
                    discount_percentage |-> priceMap[id].discount_percentage,
                    total |-> priceMap[id].discounted_price]
       IN PriceItemsDistinct(Tail(items), componentKey, priceMap,
                     IF /\ id # 0 /\ id \in DOMAIN priceMap
                        /\ \A l \in 1..Len(breakdown) : breakdown[l].product_id # id
                     THEN Append(breakdown, line) ELSE breakdown)

\* items.forEach of one slot: one line per resolved reference
RECURSIVE PriceItems(_, _, _, _)
PriceItems(items, componentKey, priceMap, breakdown) ==
  IF items = <<>> THEN breakdown
  ELSE LET id == Head(items)
           line == [component_key |-> componentKey, product_id |-> id,
                    quantity |-> 1,
                    unit_price |-> priceMap[id].discounted_price,
                    original_price |-> priceMap[id].original_price,
                    discount_percentage |-> priceMap[id].discount_percentage,
                    total |-> priceMap[id].discounted_price]
       IN PriceItems(Tail(items), componentKey, priceMap,
                     IF id # 0 /\ id \in DOMAIN priceMap
                     THEN Append(breakdown, line) ELSE breakdown)

\* variant: the slots are priced last to first
RECURSIVE PriceEntriesReversed(_, _, _)
PriceEntriesReversed(entries, priceMap, breakdown) ==
  IF entries = <<>> THEN breakdown
  ELSE PriceEntriesReversed(SubSeq(entries, 1, Len(entries) - 1), priceMap,
                            PriceItems(ItemsOf(entries[Len(entries)].val),
                                       entries[Len(entries)].key, priceMap, breakdown))

\* Object.entries(configuration).forEach(...)
RECURSIVE PriceEntries(_, _, _)
PriceEntries(entries, priceMap, breakdown) ==
  IF entries = <<>> THEN breakdown
  ELSE PriceEntries(Tail(entries), priceMap,
                    PriceItems(ItemsOf(Head(entries).val), Head(entries).key,
                               priceMap, breakdown))

RECURSIVE SumTotals(_)
SumTotals(breakdown) ==
  IF breakdown = <<>> THEN 0 ELSE Head(breakdown).total + SumTotals(Tail(breakdown))

calculatePrice(configuration, productRows) ==
  IF NotAnObject(configuration)
  THEN [status |-> 400, success |-> FALSE, subtotal |-> 0, total |-> 0,
        breakdown |-> <<>>, reads |-> <<>>]
  ELSE LET productIds == CollectIds(configuration.entries)
       IN IF Len(productIds) = 0
          THEN [status |-> 200, success |-> TRUE, subtotal |-> 0, total |-> 0,
                breakdown |-> <<>>, reads |-> <<>>]
          ELSE LET priceMap == FetchPriceMap(productRows)
                   breakdown == PriceEntries(configuration.entries, priceMap, <<>>)
                   total == SumTotals(breakdown)
               IN [status |-> 200, success |-> TRUE, subtotal |-> total,
                   total |-> total, breakdown |-> breakdown,
                   reads |-> <<"products">>]

(***************************************************************************)
(* POST /save-build, the price and the row.  Money is held in hundredths.  *)
(***************************************************************************)
\* total += discountedPrice over the rows returned, in ten-thousandths
RECURSIVE SumDiscounted(_)
SumDiscounted(ids) ==
  IF ids = {} THEN 0
  ELSE LET id == CHOOSE i \in ids : TRUE
           product == PriceRow(id)
       IN (IF product.discount_percentage > 0
           THEN product.price * (100 - product.discount_percentage)
           ELSE product.price * 100)
          + SumDiscounted(ids \ {id})

\* the quick price calculation: every row the SELECT returns is added once,
\* unrounded, and the sum is rounded: parseFloat(total.toFixed(2)).  The sum
\* is a sum of doubles; where its exact value lies half-way between two
\* cents the double lies above or below depending on the rows and on the
\* order they are returned in, and toFixed gives either neighbour.  A
\* single row gives the double calculatePrice rounds.
QuickTotals(configuration) ==
  LET productIds == CollectIds(configuration.entries)
      found == {productIds[i] : i \in 1..Len(productIds)} \cap DOMAIN Catalog
      total == SumDiscounted(found)
  IN IF total % 100 # 50 THEN {(total + 50) \div 100}
     ELSE IF Cardinality(found) = 1
     THEN {DiscountedPrice(PriceRow(CHOOSE id \in found : TRUE).price,
                           PriceRow(CHOOSE id \in found : TRUE).discount_percentage)}
     ELSE {total \div 100, total \div 100 + 1}


\* JSON.stringify(configuration): the text of the object, members in order
JsonStringify(configuration) ==
  [json |-> configuration.kind,
   members |-> [i \in 1..Len(configuration.entries) |->
                  <<configuration.entries[i].key,
                    configuration.entries[i].val.t,
                    ItemsOf(configuration.entries[i].val)>>]]

\* the catch block: 500 'Failed to save build'
saveBuildStoreError == [status |-> 500, success |-> FALSE]

\* saveBuild up to its INSERT: the answer, and total_estimated_price of the
\* row (quick is the value the quick price calculation arrives at).  With
\* no price sent and no identifier in the configuration finalPrice stays
\* undefined, the INSERT binds NULL to a NOT NULL column and is rejected.
saveBuild(configuration, total_estimated_price, quick, insertId) ==
  IF NotAnObject(configuration)
  THEN [status |-> 400, success |-> FALSE]
  ELSE LET finalPrice ==
             IF Truthy(total_estimated_price) THEN total_estimated_price
             ELSE IF Len(CollectIds(configuration.entries)) > 0 THEN Num(quick)
             ELSE total_estimated_price
       IN IF finalPrice.t = "none" THEN saveBuildStoreError
          ELSE [status |-> 201, success |-> TRUE, id |-> insertId,
                total_estimated_price |-> finalPrice.n]

(***************************************************************************)
(* Requests the clients can submit                                         *)
(***************************************************************************)
SlotOrder == <<"cpu", "motherboard", "case", "psu", "ram", "storage">>
Keys == {SlotOrder[i] : i \in 1..Len(SlotOrder)}

\* lists of 1..MaxItems references drawn from ids
ItemLists(ids) == UNION {[1..n -> ids] : n \in 1..MaxItems}

SlotChoices(key) ==
  CASE key = "cpu" -> {Ref(1), Ref(2), Ref(3), Ref(UnknownId), Refs(<<2>>)}
    [] key = "motherboard" -> {Ref(11), Ref(12), Ref(13), Ref(UnknownId), Refs(<<12>>)}
    [] key = "case" -> {Ref(21), Ref(22), Ref(23), Ref(24), Ref(25), Ref(UnknownId),
                        Refs(<<22>>)}
    [] key = "psu" -> {Ref(31), Ref(32), Ref(33), Ref(34), Ref(35), Ref(UnknownId),
                       Refs(<<33>>)}
    [] key = "ram" -> {Ref(41), Ref(42)} \cup
                      {Refs(l) : l \in ItemLists({41, 42, 43, UnknownId})}
    [] key = "storage" -> {Ref(51)} \cup
                          {Refs(l) : l \in ItemLists({51, 52, 0, UnknownId})}

\* objects with at most MaxSlots slots filled, keys in SlotOrder
ObjectConfigs ==
  { [kind |-> "object",
     entries |-> LET ks == SelectSeq(SlotOrder, LAMBDA k : k \in DOMAIN f)
                 IN [i \in 1..Len(ks) |-> [key |-> ks[i], val |-> f[ks[i]]]]] :
    f \in UNION { {g \in [K -> UNION {SlotChoices(k) : k \in K}] :
                     \A k \in K : g[k] \in SlotChoices(k)} :
                  K \in {K \in SUBSET Keys : Cardinality(K) <= MaxSlots} } }

\* JSON arrays sent as the configuration: entries keyed by index
ArrayConfigs ==
  { [kind |-> "array", entries |-> <<>>],
    [kind |-> "array", entries |-> <<[key |-> "0", val |-> Ref(1)]>>],
    [kind |-> "array",
     entries |-> <<[key |-> "0", val |-> Ref(2)], [key |-> "1", val |-> Refs(<<41>>)]>>] }

\* undefined/null, and strings or numbers
NonObjectConfigs ==
  { [kind |-> "missing", entries |-> <<>>], [kind |-> "scalar", entries |-> <<>>] }

Configurations == ObjectConfigs \cup ArrayConfigs \cup NonObjectConfigs

\* what SELECT ... WHERE is_active = 1 can return: distinct rows, any order
RuleLists ==
  { rs \in UNION {[1..n -> RuleTable] : n \in 0..MaxRules} :
      \A i, j \in 1..Len(rs) : i # j => rs[i].id # rs[j].id }

(***************************************************************************)
(* State                                                                   *)
(***************************************************************************)
VARIABLES
  vReq,     \* the /validate or /calculate-price request served: op, body
  vResp,    \* its response, with the tables queried and rules dispatched
  custom_pc_builds,   \* committed rows of custom_pc_builds
  carts,    \* committed rows of carts, by id
  cart_items,    \* committed rows of cart_items
  conn,     \* per pooled connection: open transaction and its pending writes
  nextId,   \* AUTO_INCREMENT counters of the three tables
  req,      \* per request: position in its handler and its locals
  fails     \* statements rejected by the store so far

varsV == <<vReq, vResp>>
varsDb == <<custom_pc_builds, carts, cart_items, conn, nextId, req, fails>>
vars == <<vReq, vResp, custom_pc_builds, carts, cart_items, conn, nextId, req, fails>>

NoRequest == [op |-> "none"]

Conns == 1..NumConns
Reqs == 1..MaxReq

NoTxn ==
  [inTxn |-> FALSE, custom_pc_builds |-> {}, carts |-> <<>>, cart_items |-> {},
   upd |-> <<>>]

\* req.body.configuration when none is sent
NoConfiguration == [kind |-> "missing", entries |-> <<>>]

Idle == [pc |-> "idle", op |-> "none", userId |-> 0, price |-> 0, status |-> 0,
         customBuildId |-> 0, cartId |-> 0, discount |-> 0, subtotal |-> 0,
         configuration |-> NoConfiguration]

\* INSERT INTO carts (user_id, subtotal, discount_amount, total_amount)
\* VALUES (?, 0.00, 0.00, 0.00); coupon_code is NULL ("")
EmptyCart(userId, by) ==
  [user_id |-> userId, subtotal |-> 0, discount_amount |-> 0, total_amount |-> 0,
   coupon_code |-> "", by |-> by]

\* rows of promo_codes; amounts in hundredths, a percentage in hundredths of
\* a percent; usage_limit NULL is NoVal, expired says expires_at has passed
PromoCodes ==
  "SAVE10" :> [discount_type |-> "percentage", discount_value |-> 1000,
               min_order_amount |-> 0, usage_limit |-> NoVal, used_count |-> 0,
               expired |-> FALSE, is_active |-> TRUE] @@
  "FLAT5" :> [discount_type |-> "fixed_amount", discount_value |-> 500,
              min_order_amount |-> 0, usage_limit |-> Num(100), used_count |-> 3,
              expired |-> FALSE, is_active |-> TRUE]

\* calculateCartTotals of the cart module, from the subtotal its SUM query
\* returns and the cart's coupon_code: the three totals it writes, and the
\* coupon_code it leaves (an unusable code is cleared)
calculateCartTotals(subtotal, coupon_code) ==
  LET found == coupon_code # "" /\ coupon_code \in DOMAIN PromoCodes
               /\ PromoCodes[coupon_code].is_active
      promoCode == PromoCodes[coupon_code]
      isValid == /\ ~promoCode.expired
                 /\ ~(promoCode.usage_limit # NoVal
                      /\ promoCode.used_count >= promoCode.usage_limit.n)
                 /\ ~(subtotal < promoCode.min_order_amount)
      raw == IF promoCode.discount_type = "percentage"
             THEN (subtotal * promoCode.discount_value + 5000) \div 10000
             ELSE promoCode.discount_value
      discountAmount == IF found /\ isValid
                        THEN (IF raw < subtotal THEN raw ELSE subtotal)
                        ELSE 0
  IN [subtotal |-> subtotal, discount_amount |-> discountAmount,
      total_amount |-> subtotal - discountAmount,
      coupon_code |-> IF found /\ isValid THEN coupon_code ELSE ""]

\* the store before the requests, as the cart module leaves it: no cart
\* yet; the user's cart with one product line and a percentage code
\* applied; the user's empty cart with a fixed-amount code applied
StartStores ==
  { [carts |-> <<>>, cart_items |-> {}],
    [carts |-> 1 :> [user_id |-> 1, coupon_code |-> "SAVE10", by |-> 0,
                     subtotal |-> calculateCartTotals(10000, "SAVE10").subtotal,
                     discount_amount |->
                       calculateCartTotals(10000, "SAVE10").discount_amount,
                     total_amount |->
                       calculateCartTotals(10000, "SAVE10").total_amount],
     cart_items |-> {[id |-> 1, cart_id |-> 1, custom_build_id |-> 0,
                      quantity |-> 1, price_at_added |-> 10000,
                      discounted_price |-> 10000, by |-> 0]}],
    [carts |-> 1 :> [EmptyCart(1, 0) EXCEPT !.coupon_code = "FLAT5"],
     cart_items |-> {}] }

InitDb ==
  /\ custom_pc_builds = {}
  /\ \E start \in StartStores :
       /\ carts = start.carts
       /\ cart_items = start.cart_items
  /\ conn = [c \in Conns |-> NoTxn]
  /\ nextId = [custom_pc_builds |-> 1, carts |-> 2, cart_items |-> 2]
  /\ req = [r \in Reqs |-> Idle]
  /\ fails = 0

InitV ==
  /\ vReq = NoRequest
  /\ vResp = NoRequest
  /\ InitDb
  /\ carts = <<>>

Validate ==
  /\ vReq = NoRequest
  /\ \E configuration \in Configurations, ruleRows \in RuleLists :
    /\ vReq' = [op |-> "validate", configuration |-> configuration,
                ruleRows |-> ruleRows]
    /\ vResp' = validateConfiguration(configuration, ruleRows)
    /\ UNCHANGED varsDb

ValidateStoreError ==
  /\ vReq = NoRequest
  /\ \E configuration \in Configurations \ NonObjectConfigs :
    /\ vReq' = [op |-> "validate", configuration |-> configuration,
                ruleRows |-> <<>>]
    /\ vResp' = validateConfigurationStoreError
    /\ UNCHANGED varsDb

CalculatePrice ==
  /\ vReq = NoRequest
  /\ \E configuration \in Configurations :
      \E productRows \in ProductRowOrders(CollectIds(configuration.entries)) :
    /\ vReq' = [op |-> "price", configuration |-> configuration, ruleRows |-> <<>>,
                productRows |-> productRows]
    /\ vResp' = calculatePrice(configuration, productRows)
    /\ UNCHANGED varsDb

\* the client sends the same /calculate-price body a second time
RepeatPrice ==
  /\ vReq # NoRequest
  /\ vReq.op = "price"
  /\ "previous" \notin DOMAIN vReq
  /\ \E productRows \in ProductRowOrders(CollectIds(vReq.configuration.entries)) :
    /\ vReq' = [op |-> "price", configuration |-> vReq.configuration,
                ruleRows |-> <<>>, productRows |-> productRows,
                previous |-> [productRows |-> vReq.productRows, response |-> vResp]]
    /\ vResp' = calculatePrice(vReq.configuration, productRows)
    /\ UNCHANGED varsDb

\* total_estimated_price of a /save-build body: absent, 0, or an amount
SuppliedPrices == {NoVal, Num(0), Num(15000)}

\* POST /save-build served on its own: no transaction is open, the INSERT
\* commits at once
SaveBuild ==
  /\ vReq = NoRequest
  /\ \E configuration \in Configurations, total_estimated_price \in SuppliedPrices :
      \E quick \in QuickTotals(configuration) :
        LET response == saveBuild(configuration, total_estimated_price, quick,
                                  nextId.custom_pc_builds)
        IN /\ vReq' = [op |-> "save", configuration |-> configuration,
                       ruleRows |-> <<>>,
                       total_estimated_price |-> total_estimated_price]
           /\ vResp' = response
           /\ IF response.status = 201
              THEN /\ custom_pc_builds' = custom_pc_builds \cup
                        {[id |-> response.id, user_id |-> 0,
                          total_estimated_price |-> response.total_estimated_price,
                          configuration_data |-> JsonStringify(configuration),
                          by |-> 0]}
                   /\ nextId' = [nextId EXCEPT !.custom_pc_builds = @ + 1]
              ELSE UNCHANGED <<custom_pc_builds, nextId>>
  /\ UNCHANGED <<carts, cart_items, conn, req, fails>>

\* a query of saveBuild is rejected by the store
SaveBuildStoreError ==
  /\ vReq = NoRequest
  /\ \E configuration \in Configurations \ NonObjectConfigs,
        total_estimated_price \in SuppliedPrices :
       vReq' = [op |-> "save", configuration |-> configuration, ruleRows |-> <<>>,
                total_estimated_price |-> total_estimated_price]
  /\ vResp' = saveBuildStoreError
  /\ UNCHANGED varsDb

NextV ==
  \/ Validate \/ ValidateStoreError \/ CalculatePrice \/ RepeatPrice
  \/ SaveBuild \/ SaveBuildStoreError

SpecV == InitV /\ [][NextV]_vars

(***************************************************************************)
(* The store as seen through the pool.  getDb() returns the pool, and      *)
(* pool.query() runs each statement on whichever pooled connection is free *)
(* at that moment, which depends on the other statements in flight: the    *)
(* connection of every statement is a free choice.  A connection outside a *)
(* transaction commits each statement on its own.  Reads see the committed *)
(* rows and the connection's own pending writes.                           *)
(***************************************************************************)
\* carts with the pending UPDATEs of a transaction applied
ApplyUpd(cs, upd) ==
  [id \in DOMAIN cs |->
     IF id \in DOMAIN upd
     THEN [cs[id] EXCEPT !.subtotal = upd[id].subtotal,
                         !.total_amount = upd[id].total_amount]
     ELSE cs[id]]

\* rows a statement on connection c can read
VisibleCarts(c) == ApplyUpd(carts, conn[c].upd) @@ conn[c].carts
VisibleItems(c) == cart_items \cup conn[c].cart_items
VisibleBuilds(c) == custom_pc_builds \cup conn[c].custom_pc_builds

\* another connection's open transaction holds a lock on the cart row
CartLockedByOther(c, id) ==
  \E d \in Conns \ {c} : id \in DOMAIN conn[d].carts \/ id \in DOMAIN conn[d].upd

\* another connection's open transaction holds the uncommitted build row
BuildLockedByOther(c, id) ==
  \E d \in Conns \ {c} : \E b \in conn[d].custom_pc_builds : b.id = id

\* the pending writes of connection c become durable
MakeDurable(c) ==
  /\ custom_pc_builds' = custom_pc_builds \cup conn[c].custom_pc_builds
  /\ carts' = ApplyUpd(carts, conn[c].upd) @@ conn[c].carts
  /\ cart_items' = cart_items \cup conn[c].cart_items

\* START TRANSACTION on c: an open transaction is committed implicitly
StartTransaction(c) ==
  /\ MakeDurable(c)
  /\ conn' = [conn EXCEPT ![c] = [NoTxn EXCEPT !.inTxn = TRUE]]

\* COMMIT on c
CommitOn(c) ==
  /\ MakeDurable(c)
  /\ conn' = [conn EXCEPT ![c] = NoTxn]

\* ROLLBACK on c
RollbackOn(c) ==
  /\ UNCHANGED <<custom_pc_builds, carts, cart_items>>
  /\ conn' = [conn EXCEPT ![c] = NoTxn]

\* SUM(ci.discounted_price * ci.quantity) over a set of cart_items rows
RECURSIVE SumOf(_)
SumOf(rows) ==
  IF rows = {} THEN 0
  ELSE LET row == CHOOSE x \in rows : TRUE
       IN row.discounted_price * row.quantity + SumOf(rows \ {row})

(***************************************************************************)
(* POST /checkout: isAuth, then checkoutBuild statement by statement       *)
(***************************************************************************)
\* total_price values a client sends, in hundredths; 0 is absent or not a number
Prices == {0, 15000}

\* configurations the clients of /checkout and /save-build send: none, a
\* build the socket rule accepts and one it rejects
AcceptedBuild ==
  [kind |-> "object",
   entries |-> <<[key |-> "cpu", val |-> Ref(1)],
                 [key |-> "motherboard", val |-> Ref(11)]>>]
RejectedBuild ==
  [kind |-> "object",
   entries |-> <<[key |-> "cpu", val |-> Ref(2)],
                 [key |-> "motherboard", val |-> Ref(11)]>>]
BuildConfigs == {NoConfiguration, AcceptedBuild, RejectedBuild}

\* the bodies of /checkout: <<configuration, total_price>>
CheckoutBodies ==
  {<<NoConfiguration, 0>>, <<AcceptedBuild, 0>>, <<AcceptedBuild, 15000>>,
   <<RejectedBuild, 15000>>}

\* the bodies of /save-build: <<configuration, total_estimated_price>>
SaveBodies ==
  {<<NoConfiguration, 0>>, <<AcceptedBuild, 0>>, <<RejectedBuild, 0>>,
   <<RejectedBuild, 15000>>}


Done(r, status) ==
  [req[r] EXCEPT !.pc = "done", !.status = status, !.discount = 0, !.subtotal = 0]

At(r, pc) == req[r].op = "checkout" /\ req[r].pc = pc

\* a request arrives; isAuth answers 401 itself when no valid token is sent
Arrive(r) ==
  /\ req[r].pc = "idle"
  /\ \E auth \in {"none", "noid", "user"}, body \in CheckoutBodies :
       /\ auth # "user" => body = <<AcceptedBuild, 0>>
       /\ req' = [req EXCEPT ![r] =
            IF auth = "none"
            THEN [Idle EXCEPT !.op = "checkout", !.pc = "done", !.status = 401]
            ELSE [Idle EXCEPT !.op = "checkout", !.pc = "begin",
                              !.userId = IF auth = "user" THEN 1 ELSE 0,
                              !.configuration = body[1],
                              !.price = body[2]]]
  /\ UNCHANGED <<vReq, vResp, custom_pc_builds, carts, cart_items, conn, nextId, fails>>

\* variant: a configuration the active socket rule rejects is turned away
AcceptsConfigurationIfValid(configuration) ==
  /\ ~NotAnObject(configuration)
  /\ validateConfiguration(configuration,
        <<CHOOSE rule \in RuleTable : rule.id = 2>>).valid

\* the test checkoutBuild and saveBuild apply to the configuration:
\* !configuration || typeof configuration !== 'object' answers 400
AcceptsConfiguration(configuration) == ~NotAnObject(configuration)

\* await db.query('START TRANSACTION'), then the two input checks
Begin(r) ==
  /\ At(r, "begin")
  /\ \E c \in Conns :
       /\ StartTransaction(c)
       /\ req' = [req EXCEPT ![r] =
            IF req[r].userId = 0 THEN [@ EXCEPT !.pc = "rollback", !.status = 401]
            ELSE IF ~AcceptsConfiguration(req[r].configuration)
            THEN [@ EXCEPT !.pc = "rollback", !.status = 400]
            ELSE [@ EXCEPT !.pc = "insertBuild"]]
  /\ UNCHANGED <<vReq, vResp, nextId, fails>>

\* await db.query('ROLLBACK') of the early returns and of the catch block
Rollback(r) ==
  /\ At(r, "rollback")
  /\ \E c \in Conns : RollbackOn(c)
  /\ req' = [req EXCEPT ![r] = Done(r, req[r].status)]
  /\ UNCHANGED <<vReq, vResp, nextId, fails>>

\* Step 1: INSERT INTO custom_pc_builds
InsertBuild(r) ==
  /\ At(r, "insertBuild")
  /\ \E c \in Conns :
       LET row == [id |-> nextId.custom_pc_builds, user_id |-> req[r].userId,
                   total_estimated_price |-> req[r].price,
                   configuration_data |-> JsonStringify(req[r].configuration),
                   by |-> r]
       IN IF conn[c].inTxn
          THEN /\ conn' = [conn EXCEPT ![c].custom_pc_builds = @ \cup {row}]
               /\ UNCHANGED custom_pc_builds
          ELSE /\ custom_pc_builds' = custom_pc_builds \cup {row}
               /\ UNCHANGED conn
  /\ nextId' = [nextId EXCEPT !.custom_pc_builds = @ + 1]
  /\ req' = [req EXCEPT ![r].pc = "selectCart",
                        ![r].customBuildId = nextId.custom_pc_builds]
  /\ UNCHANGED <<vReq, vResp, carts, cart_items, fails>>

\* Step 2: SELECT * FROM carts WHERE user_id = ? ORDER BY updated_at DESC LIMIT 1
\* (updated_at has a resolution of one second: among several carts of the
\* user any may come first)
SelectCart(r) ==
  /\ At(r, "selectCart")
  /\ \E c \in Conns :
       LET mine == {id \in DOMAIN VisibleCarts(c) :
                      VisibleCarts(c)[id].user_id = req[r].userId}
       IN IF mine = {}
          THEN req' = [req EXCEPT ![r].pc = "insertCart"]
          ELSE \E id \in mine :
                 req' = [req EXCEPT ![r].pc = "insertItem", ![r].cartId = id,
                           ![r].discount = VisibleCarts(c)[id].discount_amount]
  /\ UNCHANGED <<vReq, vResp, custom_pc_builds, carts, cart_items, conn, nextId, fails>>

\* Step 2, no cart found: INSERT INTO carts
InsertCart(r) ==
  /\ At(r, "insertCart")
  /\ \E c \in Conns :
       LET row == nextId.carts :> EmptyCart(req[r].userId, r)
       IN IF conn[c].inTxn
          THEN /\ conn' = [conn EXCEPT ![c].carts = @ @@ row]
               /\ UNCHANGED carts
          ELSE /\ carts' = carts @@ row
               /\ UNCHANGED conn
  /\ nextId' = [nextId EXCEPT !.carts = @ + 1]
  /\ req' = [req EXCEPT ![r].pc = "selectNewCart", ![r].cartId = nextId.carts]
  /\ UNCHANGED <<vReq, vResp, custom_pc_builds, cart_items, fails>>

\* SELECT * FROM carts WHERE id = ?; cart = newCartRows[0].  When the row is
\* not visible on this connection cart is undefined and cart.id throws.
SelectNewCart(r) ==
  /\ At(r, "selectNewCart")
  /\ \E c \in Conns :
       IF req[r].cartId \in DOMAIN VisibleCarts(c)
       THEN req' = [req EXCEPT ![r].pc = "insertItem",
                      ![r].discount = VisibleCarts(c)[req[r].cartId].discount_amount]
       ELSE req' = [req EXCEPT ![r].pc = "rollback", ![r].status = 500,
                               ![r].cartId = 0]
  /\ UNCHANGED <<vReq, vResp, custom_pc_builds, carts, cart_items, conn, nextId, fails>>

\* Step 3: INSERT INTO cart_items (..., quantity 1, price_at_added,
\* discounted_price).  The foreign keys need both parent rows: a parent held
\* by another open transaction makes the statement wait (LockWait), a parent
\* that does not exist makes it fail.
InsertItem(r) ==
  /\ At(r, "insertItem")
  /\ \E c \in Conns :
       LET cartThere == req[r].cartId \in DOMAIN VisibleCarts(c)
           buildThere == \E b \in VisibleBuilds(c) : b.id = req[r].customBuildId
           row == [id |-> nextId.cart_items, cart_id |-> req[r].cartId,
                   custom_build_id |-> req[r].customBuildId, quantity |-> 1,
                   price_at_added |-> req[r].price,
                   discounted_price |-> req[r].price, by |-> r]
       IN /\ ~CartLockedByOther(c, req[r].cartId)
          /\ ~BuildLockedByOther(c, req[r].customBuildId)
          /\ IF cartThere /\ buildThere
             THEN /\ IF conn[c].inTxn
                     THEN /\ conn' = [conn EXCEPT ![c].cart_items = @ \cup {row}]
                          /\ UNCHANGED cart_items
                     ELSE /\ cart_items' = cart_items \cup {row}
                          /\ UNCHANGED conn
                  /\ nextId' = [nextId EXCEPT !.cart_items = @ + 1]
                  /\ req' = [req EXCEPT ![r].pc = "selectSum"]
             ELSE /\ req' = [req EXCEPT ![r].pc = "rollback", ![r].status = 500]
                  /\ UNCHANGED <<cart_items, conn, nextId>>
  /\ UNCHANGED <<vReq, vResp, custom_pc_builds, carts, fails>>

\* Step 4: SELECT COALESCE(SUM(ci.discounted_price * ci.quantity), 0)
SelectSum(r) ==
  /\ At(r, "selectSum")
  /\ \E c \in Conns :
       req' = [req EXCEPT ![r].pc = "updateCart",
                 ![r].subtotal =
                    SumOf({i \in VisibleItems(c) : i.cart_id = req[r].cartId})]
  /\ UNCHANGED <<vReq, vResp, custom_pc_builds, carts, cart_items, conn, nextId, fails>>

\* Step 4: UPDATE carts SET subtotal = ?, total_amount = ? WHERE id = ?
\* with totalAmount = subtotal - cart.discount_amount
UpdateCart(r) ==
  /\ At(r, "updateCart")
  /\ \E c \in Conns :
       LET id == req[r].cartId
           totals == [subtotal |-> req[r].subtotal,
                      total_amount |-> req[r].subtotal - req[r].discount]
       IN /\ ~CartLockedByOther(c, id)
          /\ IF id \in DOMAIN conn[c].carts
             THEN /\ conn' = [conn EXCEPT ![c].carts =
                                ApplyUpd(@, id :> totals)]
                  /\ UNCHANGED carts
             ELSE IF id \in DOMAIN carts /\ conn[c].inTxn
             THEN /\ conn' = [conn EXCEPT ![c].upd = (id :> totals) @@ @]
                  /\ UNCHANGED carts
             ELSE /\ carts' = ApplyUpd(carts, id :> totals)
                  /\ UNCHANGED conn
  /\ req' = [req EXCEPT ![r].pc = "commit"]
  /\ UNCHANGED <<vReq, vResp, custom_pc_builds, cart_items, nextId, fails>>

\* await db.query('COMMIT'), then the 200 response
Commit(r) ==
  /\ At(r, "commit")
  /\ \E c \in Conns : CommitOn(c)
  /\ req' = [req EXCEPT ![r] = Done(r, 200)]
  /\ UNCHANGED <<vReq, vResp, nextId, fails>>

InTry == {"insertBuild", "selectCart", "insertCart", "selectNewCart",
          "insertItem", "selectSum", "updateCart", "commit"}

\* a statement inside the try block is rejected by the store: the catch
\* block runs
StoreError(r) ==
  /\ req[r].op = "checkout" /\ req[r].pc \in InTry
  /\ fails < MaxFail
  /\ fails' = fails + 1
  /\ req' = [req EXCEPT ![r].pc = "rollback", ![r].status = 500]
  /\ UNCHANGED <<vReq, vResp, custom_pc_builds, carts, cart_items, conn, nextId>>

\* a statement waiting for a row lock held by another connection's open
\* transaction gives up (lock wait timeout): the catch block runs
LockWait(r) ==
  /\ \/ At(r, "insertItem") /\ \E c \in Conns :
           \/ CartLockedByOther(c, req[r].cartId)
           \/ BuildLockedByOther(c, req[r].customBuildId)
     \/ At(r, "updateCart") /\ \E c \in Conns : CartLockedByOther(c, req[r].cartId)
  /\ req' = [req EXCEPT ![r].pc = "rollback", ![r].status = 500]
  /\ UNCHANGED <<vReq, vResp, custom_pc_builds, carts, cart_items, conn, nextId, fails>>

(***************************************************************************)
(* POST /save-build: saveBuild, public (no isAuth: req.user is never set)  *)
(***************************************************************************)
AtSave(r, pc) == req[r].op = "save" /\ req[r].pc = pc

\* the request arrives; a configuration that is no object is answered 400
\* before the store is touched
SaveArrive(r) ==
  /\ req[r].pc = "idle"
  /\ \E body \in SaveBodies :
       LET configuration == body[1]
           total_estimated_price == body[2]
       IN req' = [req EXCEPT ![r] =
            IF ~AcceptsConfiguration(configuration)
            THEN [Idle EXCEPT !.op = "save", !.configuration = configuration,
                              !.pc = "done", !.status = 400]
            ELSE [Idle EXCEPT !.op = "save", !.configuration = configuration,
                              !.price = total_estimated_price,
                              !.pc = IF total_estimated_price = 0
                                        /\ Len(CollectIds(configuration.entries)) > 0
                                     THEN "saveSelect" ELSE "saveInsert"]]
  /\ UNCHANGED <<vReq, vResp, custom_pc_builds, carts, cart_items, conn, nextId, fails>>

\* if (!finalPrice): SELECT id, price, discount_percentage FROM products
SaveSelect(r) ==
  /\ AtSave(r, "saveSelect")
  /\ \E total \in QuickTotals(req[r].configuration) :
       req' = [req EXCEPT ![r].pc = "saveInsert", ![r].price = total]
  /\ UNCHANGED <<vReq, vResp, custom_pc_builds, carts, cart_items, conn, nextId, fails>>

\* variant: a build equal in content to one already written is not written
\* again; the existing identifier is answered
SaveInsertDeduplicating(r) ==
  /\ AtSave(r, "saveInsert")
  /\ LET same == {b \in custom_pc_builds \cup
                          UNION {conn[c].custom_pc_builds : c \in Conns} :
                     /\ b.user_id = 0
                     /\ b.total_estimated_price = req[r].price
                     /\ b.configuration_data = JsonStringify(req[r].configuration)}
     IN IF same # {}
        THEN /\ \E b \in same :
                  req' = [req EXCEPT ![r] =
                            [Done(r, 201) EXCEPT !.customBuildId = b.id]]
             /\ UNCHANGED <<custom_pc_builds, conn, nextId>>
        ELSE /\ \E c \in Conns :
                  LET row == [id |-> nextId.custom_pc_builds, user_id |-> 0,
                              total_estimated_price |-> req[r].price,
                              configuration_data |->
                                JsonStringify(req[r].configuration),
                              by |-> r]
                  IN IF conn[c].inTxn
                     THEN /\ conn' = [conn EXCEPT ![c].custom_pc_builds = @ \cup {row}]
                          /\ UNCHANGED custom_pc_builds
                     ELSE /\ custom_pc_builds' = custom_pc_builds \cup {row}
                          /\ UNCHANGED conn
             /\ nextId' = [nextId EXCEPT !.custom_pc_builds = @ + 1]
             /\ req' = [req EXCEPT ![r] =
                  [Done(r, 201) EXCEPT !.customBuildId = nextId.custom_pc_builds]]
  /\ UNCHANGED <<vReq, vResp, carts, cart_items, fails>>

\* INSERT INTO custom_pc_builds with userId null, on whichever connection
\* the pool hands out, then the 201 response
SaveInsert(r) ==
  /\ AtSave(r, "saveInsert")
  /\ \E c \in Conns :
       LET row == [id |-> nextId.custom_pc_builds, user_id |-> 0,
                   total_estimated_price |-> req[r].price,
                   configuration_data |-> JsonStringify(req[r].configuration),
                   by |-> r]
       IN IF conn[c].inTxn
          THEN /\ conn' = [conn EXCEPT ![c].custom_pc_builds = @ \cup {row}]
               /\ UNCHANGED custom_pc_builds
          ELSE /\ custom_pc_builds' = custom_pc_builds \cup {row}
               /\ UNCHANGED conn
  /\ nextId' = [nextId EXCEPT !.custom_pc_builds = @ + 1]
  /\ req' = [req EXCEPT ![r] =
       [Done(r, 201) EXCEPT !.customBuildId = nextId.custom_pc_builds]]
  /\ UNCHANGED <<vReq, vResp, carts, cart_items, fails>>

\* a query of saveBuild is rejected by the store: the catch block answers
\* 500 'Failed to save build'
SaveStoreError(r) ==
  /\ req[r].op = "save" /\ req[r].pc \in {"saveSelect", "saveInsert"}
  /\ fails < MaxFail
  /\ fails' = fails + 1
  /\ req' = [req EXCEPT ![r] = Done(r, 500)]
  /\ UNCHANGED <<vReq, vResp, custom_pc_builds, carts, cart_items, conn, nextId>>

NextDb ==
  \E r \in Reqs :
    \/ Arrive(r) \/ Begin(r) \/ Rollback(r) \/ InsertBuild(r) \/ SelectCart(r)
    \/ InsertCart(r) \/ SelectNewCart(r) \/ InsertItem(r) \/ SelectSum(r)
    \/ UpdateCart(r) \/ Commit(r) \/ StoreError(r) \/ LockWait(r)
    \/ SaveArrive(r) \/ SaveSelect(r) \/ SaveInsert(r) \/ SaveStoreError(r)

InitD ==
  /\ vReq = NoRequest
  /\ vResp = NoRequest
  /\ InitDb

SpecDb == InitD /\ [][NextDb]_vars

(***************************************************************************)
(* Properties of the compatibility evaluator                               *)
(***************************************************************************)
Validated == vReq.op = "validate" /\ vResp.status = 200

\* the violations a response attributes to one rule
ErrorsOf(ruleId) == SelectSeq(vResp.errors, LAMBDA e : e.rule_id = ruleId)
WarningsOf(ruleId) == SelectSeq(vResp.warnings, LAMBDA w : w.rule_id = ruleId)

\* the rule's blob carries every field of the given list
HasFields(rule, fields) == \A f \in fields : Truthy(rule.rule_config[f])

\* the slot holds one reference whose identifier has a catalog row
SingleResolved(configuration, key) ==
  LET v == Lookup(configuration, key)
  IN v.t = "ref" /\ v.id \in DOMAIN Catalog

\* the string stored under field, else under fallback; "" when neither is set
StringUnder(id, field, fallback) ==
  LET own == Catalog[id][field]
      other == Catalog[id][fallback]
  IN IF own.t = "str" /\ own.s # "" THEN own.s
     ELSE IF other.t = "str" THEN other.s ELSE ""

\* C1: a ValidationResult has valid = true exactly when its error list is
\* empty, whatever its warnings are.
C1_ValidIffNoErrors ==
  (vReq.op = "validate" /\ vResp.status # 400) =>
     (vResp.valid <=> Len(vResp.errors) = 0)

\* a result that carries a warning and no error, and is valid
C1_Witness == Validated /\ Len(vResp.warnings) > 0 /\ Len(vResp.errors) = 0 /\ vResp.valid

\* what one rule produces when it is evaluated on its own
PerRule(rule, configuration) ==
  Dispatch(rule, configuration,
           FetchProductDetails(CollectIds(configuration.entries)), <<>>, <<>>)

RECURSIVE ConcatErrors(_, _)
ConcatErrors(rules, configuration) ==
  IF rules = <<>> THEN <<>>
  ELSE PerRule(Head(rules), configuration).errors
       \o ConcatErrors(Tail(rules), configuration)

RECURSIVE ConcatWarnings(_, _)
ConcatWarnings(rules, configuration) ==
  IF rules = <<>> THEN <<>>
  ELSE PerRule(Head(rules), configuration).warnings
       \o ConcatWarnings(Tail(rules), configuration)

\* C4: every active rule is dispatched, in the order the store returned the
\* rules, and the error and warning lists are the rules' own violations
\* laid end to end in that order (so one rule's violations are contiguous
\* and no rule hides another's).
C4_AllRulesInStoreOrder ==
  Validated =>
    /\ vResp.dispatched = [i \in 1..Len(vReq.ruleRows) |-> vReq.ruleRows[i].id]
    /\ vResp.errors = ConcatErrors(vReq.ruleRows, vReq.configuration)
    /\ vResp.warnings = ConcatWarnings(vReq.ruleRows, vReq.configuration)

\* two rules that both fire, the second with two violations of its own
C4_Witness ==
  /\ Validated
  /\ Len(vReq.ruleRows) = 2
  /\ Len(vResp.errors) = 3
  /\ vResp.errors[1].rule_id = vReq.ruleRows[1].id
  /\ vResp.errors[2].rule_id = vReq.ruleRows[2].id
  /\ vResp.errors[3].rule_id = vReq.ruleRows[2].id

\* C5: a configuration that is missing, a scalar or an array is rejected
\* by /validate and /calculate-price with a client error, before any store
\* read and before any rule is dispatched.
C5_NonMappingRejected ==
  (vReq.op \in {"validate", "price"}
     /\ vReq.configuration.kind \in {"missing", "scalar", "array"}) =>
    /\ vResp.status = 400
    /\ vResp.reads = <<>>
    /\ vReq.op = "validate" => vResp.dispatched = <<>>

\* C7: a socket-compatibility rule gives exactly one error, citing the
\* motherboard slot, when the CPU and the motherboard both resolve, both
\* have a non-empty socket (configured field, else "socket") and the two
\* strings differ; otherwise it gives nothing.
C7_SocketMismatch ==
  Validated =>
    \A i \in 1..Len(vReq.ruleRows) :
      LET rule == vReq.ruleRows[i]
          cfg == rule.rule_config
          configuration == vReq.configuration
          cpuSocket == StringUnder(Lookup(configuration, cfg["cpu_key"].s).id,
                                   cfg["socket_field"].s, "socket")
          moboSocket == StringUnder(Lookup(configuration, cfg["motherboard_key"].s).id,
                                    cfg["socket_field"].s, "socket")
          mismatch == /\ SingleResolved(configuration, cfg["cpu_key"].s)
                      /\ SingleResolved(configuration, cfg["motherboard_key"].s)
                      /\ cpuSocket # "" /\ moboSocket # ""
                      /\ cpuSocket # moboSocket
      IN (rule.rule_type = "socket_compatibility"
            /\ HasFields(rule, {"cpu_key", "motherboard_key", "socket_field"})) =>
           ErrorsOf(rule.id) =
             IF mismatch THEN <<Violation(rule, cfg["motherboard_key"].s)>> ELSE <<>>

\* a socket rule that fired on a mismatch read under its configured field
C7_Witness ==
  /\ Validated
  /\ \E i \in 1..Len(vReq.ruleRows) :
       /\ vReq.ruleRows[i].rule_type = "socket_compatibility"
       /\ vReq.ruleRows[i].rule_config["socket_field"].s = "sock"
       /\ Len(ErrorsOf(vReq.ruleRows[i].id)) = 1

\* C8: with a resolved PSU rated W and a summed draw T, a power rule gives
\* one error and no warning iff W < T, one warning and no error iff
\* T <= W < 1.2 T, and nothing iff W >= 1.2 T; never both.
C8_PowerThresholds ==
  Validated =>
    \A i \in 1..Len(vReq.ruleRows) :
      LET rule == vReq.ruleRows[i]
          cfg == rule.rule_config
          configuration == vReq.configuration
          W == PsuWattageOf(Catalog[Lookup(configuration, cfg["psu_key"].s).id],
                            cfg["power_field"].s)
          T == SumKeys(IF Truthy(cfg["components"]) THEN cfg["components"].l
                       ELSE ObjectKeys(configuration),
                       cfg["psu_key"].s, cfg["power_field"].s, configuration,
                       Catalog, 0)
          nE == Len(ErrorsOf(rule.id))
          nW == Len(WarningsOf(rule.id))
      IN (rule.rule_type = "power_requirement"
            /\ HasFields(rule, {"psu_key", "power_field"})
            /\ SingleResolved(configuration, cfg["psu_key"].s)) =>
           /\ (nE = 1 /\ nW = 0) <=> W < T
           /\ (nE = 0 /\ nW = 1) <=> (T <= W /\ 10 * W < 12 * T)
           /\ (nE = 0 /\ nW = 0) <=> 10 * W >= 12 * T
           /\ ~(nE > 0 /\ nW > 0)

\* a supply rated exactly at the draw: a warning and no error
C8_Witness ==
  /\ Validated
  /\ \E i \in 1..Len(vReq.ruleRows) :
       LET rule == vReq.ruleRows[i]
           cfg == rule.rule_config
       IN /\ rule.rule_type = "power_requirement"
          /\ HasFields(rule, {"psu_key", "power_field"})
          /\ SingleResolved(vReq.configuration, cfg["psu_key"].s)
          /\ Len(WarningsOf(rule.id)) = 1
          /\ Len(ErrorsOf(rule.id)) = 0
          /\ WarningsOf(rule.id)[1].message.wattage = 500
          /\ WarningsOf(rule.id)[1].message.required = 600

\* the value a row exposes under the first of three keys that is set
StringUnder3(id, field, fallback1, fallback2) ==
  LET first == StringUnder(id, field, fallback1)
  IN IF first # "" THEN first
     ELSE IF Catalog[id][fallback2].t = "str" THEN Catalog[id][fallback2].s ELSE ""

\* the supported list of a motherboard: under key, else under fallback
ListUnder(id, key, fallback) ==
  IF Truthy(Catalog[id][key]) THEN Catalog[id][key] ELSE Catalog[id][fallback]

\* items of a slot that resolve, expose a value and are not in the list
Unsupported(items, field, fallback1, fallback2, list) ==
  { j \in 1..Len(items) :
      /\ items[j] \in DOMAIN Catalog
      /\ StringUnder3(items[j], field, fallback1, fallback2) # ""
      /\ \A k \in 1..Len(list.l) :
           list.l[k] # StringUnder3(items[j], field, fallback1, fallback2) }

\* C9: for a memory-type (storage-interface) rule whose motherboard resolves
\* with a non-empty supported list, the rule gives one error per item of the
\* RAM (storage) slot that resolves, has a non-empty type (interface) and is
\* not in the list; each error cites the RAM (storage) slot.
C9_OneErrorPerUnsupportedItem ==
  Validated =>
    \A i \in 1..Len(vReq.ruleRows) :
      LET rule == vReq.ruleRows[i]
          cfg == rule.rule_config
          configuration == vReq.configuration
          isMem == rule.rule_type = "memory_type"
          slotKey == IF isMem THEN cfg["ram_key"].s ELSE cfg["storage_key"].s
          fieldName == IF isMem THEN cfg["memory_type_field"].s
                       ELSE cfg["interface_field"].s
          mobo == Lookup(configuration, cfg["motherboard_key"].s).id
          list == IF isMem THEN ListUnder(mobo, "supported_memory_types", "memory_types")
                  ELSE ListUnder(mobo, "supported_storage_interfaces",
                                 "storage_interfaces")
          items == ItemsOf(Lookup(configuration, slotKey))
          bad == IF isMem THEN Unsupported(items, fieldName, "memory_type", "type", list)
                 ELSE Unsupported(items, fieldName, "interface", "connection", list)
      IN (/\ rule.rule_type \in {"memory_type", "storage_interface"}
          /\ HasFields(rule, IF isMem
                             THEN {"ram_key", "motherboard_key", "memory_type_field"}
                             ELSE {"storage_key", "motherboard_key", "interface_field"})
          /\ SingleResolved(configuration, cfg["motherboard_key"].s)
          /\ list.t = "list" /\ Len(list.l) > 0) =>
           ErrorsOf(rule.id) = [j \in 1..Cardinality(bad) |-> Violation(rule, slotKey)]

\* two memory modules, the first supported and the second not: one error
C9_Witness ==
  /\ Validated
  /\ \E i \in 1..Len(vReq.ruleRows) :
       LET rule == vReq.ruleRows[i]
           ram == Lookup(vReq.configuration, "ram")
       IN /\ rule.rule_type = "memory_type"
          /\ SingleResolved(vReq.configuration, "motherboard")
          /\ ram.t = "list" /\ Len(ram.items) = 2
          /\ ram.items[1] \in DOMAIN Catalog /\ ram.items[2] \in DOMAIN Catalog
          /\ Len(ErrorsOf(rule.id)) = 1
          /\ ErrorsOf(rule.id)[1].component_key = "ram"

\* what C10 needs of a form-factor rule and the configuration
FormFactorCase(rule) ==
  /\ rule.rule_type = "form_factor"
  /\ HasFields(rule, {"motherboard_key", "case_key", "form_factor_field"})

BothResolve(rule, configuration) ==
  /\ SingleResolved(configuration, rule.rule_config["motherboard_key"].s)
  /\ SingleResolved(configuration, rule.rule_config["case_key"].s)

MoboFormFactor(rule, configuration) ==
  StringUnder(Lookup(configuration, rule.rule_config["motherboard_key"].s).id,
              rule.rule_config["form_factor_field"].s, "form_factor")

\* C10 as stated: the case's list is read under the rule's configured field
\* name, else "form_factors"; a violation iff both resolve, the
\* motherboard's value and the list are non-empty and the value is not in
\* the list.
C10_ListUnderRuleField ==
  Validated =>
    \A i \in 1..Len(vReq.ruleRows) :
      LET rule == vReq.ruleRows[i]
          configuration == vReq.configuration
          ff == MoboFormFactor(rule, configuration)
          list == ListUnder(Lookup(configuration, rule.rule_config["case_key"].s).id,
                            rule.rule_config["form_factor_field"].s, "form_factors")
      IN FormFactorCase(rule) =>
           (Len(ErrorsOf(rule.id)) > 0 <=>
              /\ BothResolve(rule, configuration)
              /\ ff # ""
              /\ list.t = "list" /\ Len(list.l) > 0
              /\ \A k \in 1..Len(list.l) : list.l[k] # ff)

\* C10 amended: the case's value is read under "supported_form_factors",
\* else "form_factors", whatever field the rule names; the rule gives one
\* error citing the case slot iff both resolve, the motherboard's value is
\* non-empty, the case's value has positive length and is not an array
\* holding the motherboard's value.
C10_ListUnderSupportedFormFactors ==
  Validated =>
    \A i \in 1..Len(vReq.ruleRows) :
      LET rule == vReq.ruleRows[i]
          configuration == vReq.configuration
          ff == MoboFormFactor(rule, configuration)
          value == ListUnder(Lookup(configuration, rule.rule_config["case_key"].s).id,
                             "supported_form_factors", "form_factors")
          violated == /\ BothResolve(rule, configuration)
                      /\ ff # ""
                      /\ \/ value.t = "str" /\ value.s # ""
                         \/ value.t = "list" /\ Len(value.l) > 0
                      /\ ~(value.t = "list" /\ \E k \in 1..Len(value.l) : value.l[k] = ff)
      IN FormFactorCase(rule) =>
           ErrorsOf(rule.id) =
             IF violated THEN <<Violation(rule, rule.rule_config["case_key"].s)>>
             ELSE <<>>

\* a form-factor rule that fired on a list stored under supported_form_factors
C10_Witness ==
  /\ Validated
  /\ \E i \in 1..Len(vReq.ruleRows) :
       LET rule == vReq.ruleRows[i]
           caseId == Lookup(vReq.configuration, "case").id
       IN /\ FormFactorCase(rule)
          /\ BothResolve(rule, vReq.configuration)
          /\ Catalog[caseId]["supported_form_factors"].t = "list"
          /\ Len(ErrorsOf(rule.id)) = 1

(***************************************************************************)
(* Properties of checkoutBuild                                             *)
(***************************************************************************)
\* no checkout is between its first statement and its response
Quiescent == \A r \in Reqs : req[r].pc \in {"idle", "done"}

Finished(r) == req[r].op = "checkout" /\ req[r].pc = "done"

BuildsBy(r) == {b \in custom_pc_builds : b.by = r}
ItemsBy(r) == {i \in cart_items : i.by = r}
CartsBy(r) == {id \in DOMAIN carts : carts[id].by = r}

\* C2: the multi-step write of checkoutBuild is atomic.  Once every request
\* has answered, a checkout that answered 200 has its build and its line
\* item committed, a checkout that answered anything else has committed no
\* build, no cart and no line item, every committed build of a checkout has
\* a committed line item, and every cart a checkout created holds a line item.
C2_CheckoutAtomic ==
  Quiescent =>
    /\ \A r \in Reqs :
         Finished(r) =>
           IF req[r].status = 200
           THEN BuildsBy(r) # {} /\ ItemsBy(r) # {}
           ELSE BuildsBy(r) = {} /\ ItemsBy(r) = {} /\ CartsBy(r) = {}
    /\ \A b \in custom_pc_builds :
         req[b.by].op = "checkout" => \E i \in cart_items : i.custom_build_id = b.id
    /\ \A id \in DOMAIN carts :
         carts[id].by # 0 => \E i \in cart_items : i.cart_id = id

\* C3: once every checkout has answered, and every one that reached the
\* handler answered 200, each cart's stored subtotal is the sum of
\* discounted_price * quantity over the committed line items of that cart
\* and its total_amount is subtotal - discount_amount.
C3_CartTotalsMatchItems ==
  (Quiescent /\ \A r \in Reqs : Finished(r) => req[r].status \in {200, 401}) =>
    \A id \in DOMAIN carts :
      /\ carts[id].subtotal = SumOf({i \in cart_items : i.cart_id = id})
      /\ carts[id].total_amount = carts[id].subtotal - carts[id].discount_amount

WrittenBuilds ==
  custom_pc_builds \cup UNION {conn[c].custom_pc_builds : c \in Conns}

\* a checkout (with an owner) or a save that has answered
Answered(r) ==
  /\ req[r].pc = "done"
  /\ \/ req[r].op = "save"
     \/ req[r].op = "checkout" /\ req[r].userId # 0

\* C19: saveBuild and checkoutBuild never consult the compatibility rules.
\* A request whose configuration is an object is never answered 400, whether
\* validateConfiguration accepts the configuration or not, and every build
\* row it wrote carries the text of exactly that configuration and the
\* request's total.
C19_RulesNotConsulted ==
  \A r \in Reqs :
    (Answered(r) /\ ~NotAnObject(req[r].configuration)) =>
      /\ req[r].status \in {200, 201, 500}
      /\ \A b \in WrittenBuilds :
           b.by = r =>
             /\ b.configuration_data = JsonStringify(req[r].configuration)
             /\ b.total_estimated_price = req[r].price

\* a checkout and a save of the build the socket rule rejects have both
\* answered with success, and their rows are committed
C19_Witness ==
  /\ ~validateConfiguration(RejectedBuild,
         <<CHOOSE rule \in RuleTable : rule.id = 2>>).valid
  /\ \E r, q \in Reqs :
       /\ req[r].op = "checkout" /\ req[r].pc = "done" /\ req[r].status = 200
       /\ req[q].op = "save" /\ req[q].pc = "done" /\ req[q].status = 201
       /\ req[r].configuration = RejectedBuild
       /\ req[q].configuration = RejectedBuild
       /\ \E b, d \in custom_pc_builds :
            /\ b.by = r /\ d.by = q
            /\ b.configuration_data = JsonStringify(RejectedBuild)
            /\ d.configuration_data = JsonStringify(RejectedBuild)

\* the request answered that its build was created: 200 of checkoutBuild,
\* 201 of saveBuild
ReportedCreated(r) == req[r].pc = "done" /\ req[r].status \in {200, 201}

\* C20: a saved build is immutable once created.  No step of a saveBuild or
\* checkoutBuild call removes or alters a committed custom_pc_builds row, and
\* a row whose request has answered that the build was created is still
\* there afterwards (committed, or at least still held by the transaction it
\* was written in) with the same owner, total and configuration text.
C20_CreatedBuildsKept ==
  [][/\ custom_pc_builds \subseteq custom_pc_builds'
     /\ \A b \in WrittenBuilds : ReportedCreated(b.by) => b \in WrittenBuilds']_vars

\* C21: saveBuild does not deduplicate.  The step of a save that answers 201
\* writes one new custom_pc_builds row whose identifier is the one answered
\* and differs from the identifier of every row written before, also when
\* a row with the same configuration and total is already there.
C21_SaveCreatesNewBuild ==
  [][\A r \in Reqs :
       (AtSave(r, "saveInsert") /\ req'[r].status = 201) =>
         \E b \in WrittenBuilds' \ WrittenBuilds :
           /\ b.id = req'[r].customBuildId
           /\ b.configuration_data = JsonStringify(req[r].configuration)
           /\ \A d \in WrittenBuilds : d.id # b.id]_vars

\* two saves of the same configuration at the same total have answered 201
\* and left two committed rows
C21_Witness ==
  \E r, q \in Reqs :
    /\ r # q
    /\ req[r].op = "save" /\ req[q].op = "save"
    /\ req[r].status = 201 /\ req[q].status = 201
    /\ req[r].configuration = req[q].configuration
    /\ req[r].price = req[q].price
    /\ \E b, d \in custom_pc_builds :
         /\ b.id = req[r].customBuildId /\ d.id = req[q].customBuildId
         /\ b.id # d.id
         /\ b.configuration_data = d.configuration_data

\* the cart lines and carts written so far, committed or held by an open
\* transaction
WrittenItems == cart_items \cup UNION {conn[c].cart_items : c \in Conns}
WrittenCarts == DOMAIN carts \cup UNION {DOMAIN conn[c].carts : c \in Conns}

\* the committed carts of the owner of request r
CartsOfOwner(r) == {id \in DOMAIN carts : carts[id].user_id = req[r].userId}

\* C22: a checkout that answers 200 has added exactly one cart line, of
\* quantity 1, that references the build the same call wrote and lies in the
\* call's cart; the get-or-create step takes a cart of the owner when the
\* owner has one and creates one only otherwise; no committed cart line is
\* changed by any step.
C22_CheckoutAddsOneLine ==
  [][/\ \A r \in Reqs :
          (At(r, "commit") /\ req'[r].status = 200) =>
            /\ Cardinality({i \in WrittenItems' : i.by = r}) = 1
            /\ \A i \in WrittenItems' :
                 i.by = r =>
                   /\ i.quantity = 1
                   /\ i.cart_id = req[r].cartId
                   /\ i.cart_id \in WrittenCarts'
                   /\ \E b \in WrittenBuilds' :
                        b.by = r /\ b.id = i.custom_build_id
     /\ \A r \in Reqs :
          (At(r, "selectCart") /\ req'[r].pc \in {"insertItem", "insertCart"}) =>
            IF CartsOfOwner(r) # {}
            THEN req'[r].pc = "insertItem" /\ req'[r].cartId \in CartsOfOwner(r)
            ELSE req'[r].pc = "insertCart" \/ req'[r].cartId \in WrittenCarts
     /\ cart_items \subseteq cart_items']_vars

(***************************************************************************)
(* Properties of the single rule types and of the price breakdown          *)
(***************************************************************************)
\* a max-quantity rule whose blob names a slot and a maximum
MaxQuantityCase(rule) ==
  /\ rule.rule_type = "max_quantity"
  /\ rule.rule_config["max_quantity"].t = "num"
  /\ rule.rule_config["component_key"].t = "str"
  /\ rule.rule_config["component_key"].s # ""

\* number of references the slot holds: list length, 1 for a single one
CountOf(component) == IF component.t = "list" THEN Len(component.items) ELSE 1

\* C11: a max-quantity rule naming slot k and maximum m gives exactly one
\* error, citing k, when slot k is present and holds more than m references
\* (list length, or 1 for a single reference), and nothing otherwise.
C11_MaxQuantity ==
  Validated =>
    \A i \in 1..Len(vReq.ruleRows) :
      LET rule == vReq.ruleRows[i]
          k == rule.rule_config["component_key"].s
          m == rule.rule_config["max_quantity"].n
          component == Lookup(vReq.configuration, k)
      IN MaxQuantityCase(rule) =>
           ErrorsOf(rule.id) =
             IF component.t # "absent" /\ CountOf(component) > m
             THEN <<Violation(rule, k)>>
             ELSE <<>>

\* the fields a rule type refuses to run without
RequiredFields(rule_type) ==
  CASE rule_type = "max_quantity" -> {"max_quantity", "component_key"}
    [] rule_type = "socket_compatibility" -> {"cpu_key", "motherboard_key", "socket_field"}
    [] rule_type = "form_factor" -> {"motherboard_key", "case_key", "form_factor_field"}
    [] rule_type = "power_requirement" -> {"psu_key", "power_field"}
    [] rule_type = "memory_type" -> {"ram_key", "motherboard_key", "memory_type_field"}
    [] rule_type = "storage_interface" -> {"storage_key", "motherboard_key", "interface_field"}
    [] OTHER -> {}

\* the blob did not parse, or parsed without one of the required fields
LacksRequiredField(rule) ==
  \E f \in RequiredFields(rule.rule_type) : rule.rule_config[f].t = "none"

NeedsSpecification(rule) ==
  rule.rule_type \in {"socket_compatibility", "form_factor", "power_requirement",
                      "memory_type", "storage_interface"}

Priced == vReq.op = "price" /\ vResp.status = 200

\* the answer of CalculatePrice to a configuration, the rows in ascending order
PriceOf(configuration) ==
  calculatePrice(configuration,
                 CHOOSE rows \in ProductRowOrders(CollectIds(configuration.entries)) :
                   \A i \in 1..(Len(rows) - 1) : rows[i] < rows[i + 1])

\* the slot value without its references to identifiers missing from the
\* catalog (a null item, identifier 0, is no reference and stays)
KnownItems(items) == SelectSeq(items, LAMBDA id : id = 0 \/ id \in DOMAIN Catalog)

\* the configuration without its unresolvable references: a slot holding a
\* single unresolvable reference is dropped, a list loses those items
WithoutUnresolved(configuration) ==
  [kind |-> configuration.kind,
   entries |->
     LET kept == SelectSeq(configuration.entries,
                           LAMBDA e : ~(e.val.t = "ref" /\ e.val.id \notin DOMAIN Catalog))
     IN [i \in 1..Len(kept) |->
           [key |-> kept[i].key,
            val |-> IF kept[i].val.t = "list"
                    THEN Refs(KnownItems(kept[i].val.items))
                    ELSE kept[i].val]]]

HasUnresolved(configuration) == WithoutUnresolved(configuration) # configuration

\* C13: references to identifiers absent from the catalog change nothing.
\* Validate and CalculatePrice answer 200; every rule that reads
\* specifications gives the errors and warnings it gives on the
\* configuration without those references (so the result is valid when no
\* other rule fires); the breakdown has no line for such a reference and
\* lines, subtotal and total are those of the configuration without them.
C13_UnresolvedContributesNothing ==
  (vReq.op \in {"validate", "price"} /\ vReq.configuration.kind = "object"
     /\ vResp.status # validateConfigurationStoreError.status) =>
    LET configuration == vReq.configuration
        resolved == WithoutUnresolved(configuration)
    IN /\ vResp.status = 200
       /\ vReq.op = "validate" =>
            /\ \A i \in 1..Len(vReq.ruleRows) :
                 LET rule == vReq.ruleRows[i]
                 IN NeedsSpecification(rule) =>
                      /\ ErrorsOf(rule.id) = PerRule(rule, resolved).errors
                      /\ WarningsOf(rule.id) = PerRule(rule, resolved).warnings
            /\ (\A i \in 1..Len(vReq.ruleRows) : NeedsSpecification(vReq.ruleRows[i]))
                 => (vResp.valid <=> ConcatErrors(vReq.ruleRows, resolved) = <<>>)
       /\ vReq.op = "price" =>
            /\ \A l \in 1..Len(vResp.breakdown) :
                 vResp.breakdown[l].product_id \in DOMAIN Catalog
            /\ vResp.breakdown = PriceOf(resolved).breakdown
            /\ vResp.subtotal = PriceOf(resolved).subtotal
            /\ vResp.total = PriceOf(resolved).total

\* a memory-type rule on a RAM list holding an unresolvable reference next
\* to an unsupported module: one error, for the module that resolves
C13_Witness ==
  /\ Validated
  /\ Lookup(vReq.configuration, "motherboard") = Ref(11)
  /\ Lookup(vReq.configuration, "ram") = Refs(<<UnknownId, 42>>)
  /\ Len(vReq.ruleRows) = 1
  /\ vReq.ruleRows[1].rule_type = "memory_type"
  /\ Len(vResp.errors) = 1

\* the blob fields of a rule type that name slots of the configuration
SlotFields(rule_type) ==
  CASE rule_type = "max_quantity" -> {"component_key"}
    [] rule_type = "socket_compatibility" -> {"cpu_key", "motherboard_key"}
    [] rule_type = "form_factor" -> {"motherboard_key", "case_key"}
    [] rule_type = "power_requirement" -> {"psu_key"}
    [] rule_type = "memory_type" -> {"ram_key", "motherboard_key"}
    [] rule_type = "storage_interface" -> {"storage_key", "motherboard_key"}
    [] OTHER -> {}

\* the slots a rule depends on
SlotsOf(rule) ==
  {rule.rule_config[f].s : f \in {g \in SlotFields(rule.rule_type) :
                                    rule.rule_config[g].t = "str"}}

\* the submitted object has the key
HasSlot(configuration, key) ==
  \E i \in 1..Len(configuration.entries) : configuration.entries[i].key = key

\* C14: for the empty configuration Validate answers valid with no error
\* and no warning whatever the rules are, and CalculatePrice answers
\* subtotal 0, total 0 and no line; for any object, a rule that depends on a
\* slot the object lacks gives no error and no warning.
C14_AbsentSlotNeverFires ==
  (vReq.op \in {"validate", "price"} /\ vReq.configuration.kind = "object"
     /\ vResp.status # validateConfigurationStoreError.status) =>
    /\ (vReq.op = "validate" /\ vReq.configuration.entries = <<>>) =>
         /\ vResp.status = 200 /\ vResp.valid
         /\ vResp.errors = <<>> /\ vResp.warnings = <<>>
    /\ (vReq.op = "price" /\ vReq.configuration.entries = <<>>) =>
         /\ vResp.status = 200
         /\ vResp.subtotal = 0 /\ vResp.total = 0 /\ vResp.breakdown = <<>>
    /\ vReq.op = "validate" =>
         \A i \in 1..Len(vReq.ruleRows) :
           LET rule == vReq.ruleRows[i]
           IN (\E k \in SlotsOf(rule) : ~HasSlot(vReq.configuration, k)) =>
                ErrorsOf(rule.id) = <<>> /\ WarningsOf(rule.id) = <<>>

\* a partial configuration: the first rule lacks one of its two slots and
\* has the other, the second rule has its slots and fires
C14_Witness ==
  /\ Validated /\ vReq.configuration.kind = "object"
  /\ Len(vReq.ruleRows) = 2
  /\ \E k \in SlotsOf(vReq.ruleRows[1]) : ~HasSlot(vReq.configuration, k)
  /\ \E k \in SlotsOf(vReq.ruleRows[1]) : HasSlot(vReq.configuration, k)
  /\ ErrorsOf(vReq.ruleRows[1].id) = <<>>
  /\ ErrorsOf(vReq.ruleRows[2].id) # <<>>

\* the references of a configuration that resolve, in submission order
ResolvedRefs(configuration) ==
  SelectSeq(CollectIds(configuration.entries), LAMBDA id : id \in DOMAIN Catalog)

\* sum of the total fields of lines 1..n
RECURSIVE LineTotals(_, _)
LineTotals(breakdown, n) ==
  IF n = 0 THEN 0 ELSE breakdown[n].total + LineTotals(breakdown, n - 1)

\* how often x occurs in a sequence
Occurrences(seq, x) == Cardinality({i \in 1..Len(seq) : seq[i] = x})

\* C15: in every breakdown subtotal is the sum of the line totals, total
\* equals subtotal, and there is one line of quantity 1 per resolved
\* reference: an identifier referenced n times has n lines.
C15_SubtotalIsSumOfLines ==
  Priced =>
    LET refs == ResolvedRefs(vReq.configuration)
        productIdOf(l) == vResp.breakdown[l].product_id
    IN /\ vResp.subtotal = LineTotals(vResp.breakdown, Len(vResp.breakdown))
       /\ vResp.total = vResp.subtotal
       /\ Len(vResp.breakdown) = Len(refs)
       /\ \A l \in 1..Len(vResp.breakdown) :
            /\ vResp.breakdown[l].quantity = 1
            /\ vResp.breakdown[l].total = vResp.breakdown[l].unit_price
            /\ Occurrences([k \in 1..Len(vResp.breakdown) |-> productIdOf(k)],
                           productIdOf(l))
                 = Occurrences(refs, productIdOf(l))

\* the same module twice in the RAM list: two lines, counted twice
C15_Witness ==
  /\ Priced
  /\ Lookup(vReq.configuration, "ram") = Refs(<<41, 41>>)
  /\ Len(vReq.configuration.entries) = 1
  /\ Len(vResp.breakdown) = 2
  /\ vResp.subtotal = 2 * vResp.breakdown[1].total

\* the slot and identifier of every resolved reference, slot by slot in
\* submission order and item by item within a slot
RECURSIVE ExpectedLines(_)
ExpectedLines(entries) ==
  IF entries = <<>> THEN <<>>
  ELSE LET e == Head(entries)
           ids == SelectSeq(ItemsOf(e.val), LAMBDA id : id \in DOMAIN Catalog)
       IN [i \in 1..Len(ids) |-> <<e.key, ids[i]>>] \o ExpectedLines(Tail(entries))

\* C16: the lines of a breakdown follow the order of the submitted slots
\* and, within a slot, of its list, whatever order the price rows came in.
C16_LinesInSubmissionOrder ==
  Priced =>
    [l \in 1..Len(vResp.breakdown) |->
       <<vResp.breakdown[l].component_key, vResp.breakdown[l].product_id>>]
      = ExpectedLines(vReq.configuration.entries)

\* two slots, three lines, and the price rows returned in another order
\* than the references were submitted
C16_Witness ==
  /\ Priced
  /\ Len(vReq.configuration.entries) = 2
  /\ Len(vResp.breakdown) = 3
  /\ vResp.breakdown[1].product_id # vResp.breakdown[2].product_id
  /\ vResp.breakdown[2].product_id # vResp.breakdown[3].product_id
  /\ vReq.productRows[1] = vResp.breakdown[3].product_id
  /\ vReq.productRows[2] = vResp.breakdown[1].product_id

\* P * (1 - D / 100) rounded to the nearest cent, a half cent rounding up
\* (P in hundredths, D in percent)
RoundedDiscount(P, D) == (P * (100 - D) + 50) \div 100

\* C17: the unit price of every line is P * (1 - D / 100) rounded to two
\* decimals, lies between 0 and P, and is P itself when D = 0.
C17_UnitPriceIsRoundedDiscount ==
  Priced =>
    \A l \in 1..Len(vResp.breakdown) :
      LET P == PriceRow(vResp.breakdown[l].product_id).price
          D == PriceRow(vResp.breakdown[l].product_id).discount_percentage
          unit == vResp.breakdown[l].unit_price
      IN /\ unit = RoundedDiscount(P, D)
         /\ 0 <= unit /\ unit <= P
         /\ D = 0 => unit = P

\* C18: a second CalculatePrice call with the same configuration answers
\* exactly what the first answered (status, lines and their order, subtotal
\* and total), whatever order the price rows came in, and neither call
\* reads the rules.
C18_PriceDeterministic ==
  (vReq.op = "price" /\ "previous" \in DOMAIN vReq) =>
    /\ vResp = vReq.previous.response
    /\ \A i \in 1..Len(vResp.reads) : vResp.reads[i] # "pc_compatibility_rules"

\* a repeated call with three lines whose price rows came in another order
C18_Witness ==
  /\ vReq.op = "price" /\ "previous" \in DOMAIN vReq
  /\ vReq.previous.productRows # vReq.productRows
  /\ Len(vResp.breakdown) = 3

(***************************************************************************)
(* Properties of the power-requirement rule                                *)
(***************************************************************************)
\* a power rule that runs: both required fields set, the PSU slot holds one
\* reference and that reference has a catalog row
PowerRuleRuns(rule, configuration) ==
  /\ rule.rule_type = "power_requirement"
  /\ HasFields(rule, {"psu_key", "power_field"})
  /\ SingleResolved(configuration, rule.rule_config["psu_key"].s)

\* the slots counted: the explicit list when given, else the keys of the
\* configuration, in both cases without the PSU slot
CountedSlots(rule, configuration) ==
  SelectSeq(IF rule.rule_config["components"].t = "list"
            THEN rule.rule_config["components"].l
            ELSE ObjectKeys(configuration),
            LAMBDA k : k # rule.rule_config["psu_key"].s)

\* the identifiers held by the given slots, every list member included
RECURSIVE IdsInSlots(_, _)
IdsInSlots(slots, configuration) ==
  IF slots = <<>> THEN <<>>
  ELSE LET component == Lookup(configuration, Head(slots))
       IN (IF component.t = "absent" THEN <<>> ELSE ItemsOf(component))
          \o IdsInSlots(Tail(slots), configuration)

\* sum of the draw of the identifiers that have a catalog row
RECURSIVE DrawSum(_, _)
DrawSum(ids, power_field) ==
  IF ids = <<>> THEN 0
  ELSE (IF Head(ids) \in DOMAIN Catalog
        THEN DrawOf(Catalog[Head(ids)], power_field) ELSE 0)
       + DrawSum(Tail(ids), power_field)

ExpectedDraw(rule, configuration) ==
  DrawSum(IdsInSlots(CountedSlots(rule, configuration), configuration),
          rule.rule_config["power_field"].s)

\* C23: the total draw a power-requirement rule compares the PSU with is the
\* sum of the draw of every resolved item, all list members included, of
\* every counted slot: the slots of the rule's explicit list when given, else
\* every slot of the configuration, never the PSU slot; an item without a
\* draw field adds 0.  The rule's error and warning follow from that sum.
C23_DrawIsSumOverCountedSlots ==
  Validated =>
    \A i \in 1..Len(vReq.ruleRows) :
      LET rule == vReq.ruleRows[i]
          psu_key == rule.rule_config["psu_key"].s
          power_field == rule.rule_config["power_field"].s
          psu == Lookup(vReq.configuration, psu_key)
          wattage == PsuWattageOf(Catalog[psu.id], power_field)
          draw == ExpectedDraw(rule, vReq.configuration)
      IN PowerRuleRuns(rule, vReq.configuration) =>
           /\ ErrorsOf(rule.id) =
                IF wattage < draw THEN <<Violation(rule, psu_key)>> ELSE <<>>
           /\ WarningsOf(rule.id) =
                IF wattage >= draw /\ 10 * wattage < 12 * draw
                THEN <<[rule_id |-> rule.id, rule_name |-> rule.rule_name,
                        message |-> PowerWarningMessage(wattage, draw),
                        component_key |-> psu_key]>>
                ELSE <<>>

\* a rule whose explicit list names the PSU slot and the memory slot has
\* judged a PSU against two memory modules: their joint draw exceeds the
\* rating, the draw of one alone does not
C23_Witness ==
  /\ Validated
  /\ \E i \in 1..Len(vReq.ruleRows) :
       LET rule == vReq.ruleRows[i]
           psu == Lookup(vReq.configuration, "psu")
           ram == Lookup(vReq.configuration, "ram")
       IN /\ PowerRuleRuns(rule, vReq.configuration)
          /\ rule.rule_config["components"].t = "list"
          /\ \E j \in 1..Len(rule.rule_config["components"].l) :
               rule.rule_config["components"].l[j] = "psu"
          /\ ram.t = "list" /\ Len(ram.items) = 2
          /\ DrawOf(Catalog[psu.id], rule.rule_config["power_field"].s) > 0
          /\ ErrorsOf(rule.id) # <<>>
          /\ PsuWattageOf(Catalog[psu.id], rule.rule_config["power_field"].s)
               >= DrawSum(<<ram.items[1]>>, rule.rule_config["power_field"].s)

\* the PSU's specification has no value under the rule's power field and
\* none under "wattage"
Unrated(rule, configuration) ==
  LET psu == Lookup(configuration, rule.rule_config["psu_key"].s)
  IN /\ Get(Catalog[psu.id], rule.rule_config["power_field"].s) = NoVal
     /\ Catalog[psu.id]["wattage"] = NoVal

\* C29: a resolved PSU whose specification exposes no wattage is treated as
\* rated 0 W: the power rule gives its error when the summed draw is
\* positive and nothing when the draw is 0; it never gives a warning and is
\* not skipped.
C29_UnratedPsuIsZeroWatts ==
  Validated =>
    \A i \in 1..Len(vReq.ruleRows) :
      LET rule == vReq.ruleRows[i]
      IN (PowerRuleRuns(rule, vReq.configuration)
          /\ Unrated(rule, vReq.configuration)) =>
           /\ ErrorsOf(rule.id) =
                IF ExpectedDraw(rule, vReq.configuration) > 0
                THEN <<Violation(rule, rule.rule_config["psu_key"].s)>>
                ELSE <<>>
           /\ WarningsOf(rule.id) = <<>>

\* a power rule has judged an unrated PSU against a component that draws
\* power, and has given its error
C29_Witness ==
  /\ Validated
  /\ \E i \in 1..Len(vReq.ruleRows) :
       /\ PowerRuleRuns(vReq.ruleRows[i], vReq.configuration)
       /\ Unrated(vReq.ruleRows[i], vReq.configuration)
       /\ ExpectedDraw(vReq.ruleRows[i], vReq.configuration) > 0
       /\ ErrorsOf(vReq.ruleRows[i].id) # <<>>

\* the blob fields naming the slots a rule type reads as one component
SingleSlotFields(rule_type) ==
  CASE rule_type = "socket_compatibility" -> {"cpu_key", "motherboard_key"}
    [] rule_type = "form_factor" -> {"motherboard_key", "case_key"}
    [] rule_type = "power_requirement" -> {"psu_key"}
    [] rule_type = "memory_type" -> {"motherboard_key"}
    [] rule_type = "storage_interface" -> {"motherboard_key"}
    [] OTHER -> {}

\* one of the rule's single-component slots holds a list
ListInSingleSlot(rule, configuration) ==
  \E f \in SingleSlotFields(rule.rule_type) :
    /\ rule.rule_config[f].t = "str"
    /\ HasSlot(configuration, rule.rule_config[f].s)
    /\ LET i == CHOOSE j \in 1..Len(configuration.entries) :
                   configuration.entries[j].key = rule.rule_config[f].s
       IN configuration.entries[i].val.t = "list"

\* the configuration with every one-member list replaced by its member
Unlisted(configuration) ==
  [configuration EXCEPT !.entries =
     [i \in 1..Len(configuration.entries) |->
        IF /\ configuration.entries[i].val.t = "list"
           /\ Len(configuration.entries[i].val.items) = 1
        THEN [configuration.entries[i] EXCEPT
                !.val = Ref(configuration.entries[i].val.items[1])]
        ELSE configuration.entries[i]]]

\* C30: a rule that reads a slot as one component (socket: CPU and
\* motherboard; form factor: motherboard and case; power: PSU; memory type
\* and storage interface: motherboard) gives no error and no warning when
\* that slot holds a list of references, whatever the members are.
C30_ListInSingleSlotSkipsRule ==
  Validated =>
    \A i \in 1..Len(vReq.ruleRows) :
      ListInSingleSlot(vReq.ruleRows[i], vReq.configuration) =>
        /\ ErrorsOf(vReq.ruleRows[i].id) = <<>>
        /\ WarningsOf(vReq.ruleRows[i].id) = <<>>

\* a rule has passed over a list in one of its single-component slots whose
\* member, submitted as a single reference, it rejects
C30_Witness ==
  /\ Validated
  /\ \E i \in 1..Len(vReq.ruleRows) :
       /\ ListInSingleSlot(vReq.ruleRows[i], vReq.configuration)
       /\ ErrorsOf(vReq.ruleRows[i].id) = <<>>
       /\ validateConfiguration(Unlisted(vReq.configuration),
                                <<vReq.ruleRows[i]>>).errors # <<>>

(***************************************************************************)
(* Properties of the recorded prices                                       *)
(***************************************************************************)
\* a save without a supplied price has answered 201
SavedUnpriced ==
  vReq.op = "save" /\ vResp.status = 201 /\ vReq.total_estimated_price = NoVal

\* C24: when saveBuild is called without a supplied price, the total it
\* answers and stores equals the total calculatePrice returns for the same
\* configuration and catalog.
C24_SavedTotalIsCalculatedTotal ==
  SavedUnpriced =>
    /\ vResp.total_estimated_price = PriceOf(vReq.configuration).total
    /\ \E b \in custom_pc_builds :
         /\ b.id = vResp.id
         /\ b.total_estimated_price = PriceOf(vReq.configuration).total

\* C25: the price a checkout records, in the build row and in the cart
\* line, is the calculatePrice total of its configuration, whatever
\* total_price the client sent; two checkouts of one configuration record
\* the same price.
C25_CheckoutPriceFromCatalog ==
  /\ \A b \in WrittenBuilds :
       req[b.by].op = "checkout" =>
         b.total_estimated_price = PriceOf(req[b.by].configuration).total
  /\ \A i \in WrittenItems :
       i.by \in Reqs =>
         /\ i.price_at_added = PriceOf(req[i.by].configuration).total
         /\ i.discounted_price = PriceOf(req[i.by].configuration).total
  /\ \A b, d \in WrittenBuilds :
       (/\ req[b.by].op = "checkout" /\ req[d.by].op = "checkout"
        /\ b.configuration_data = d.configuration_data) =>
         b.total_estimated_price = d.total_estimated_price

(***************************************************************************)
(* Properties of concurrent checkouts                                      *)
(***************************************************************************)
\* the carts written for owner u, committed or held by an open transaction
OwnerCarts(u) ==
  {id \in DOMAIN carts : carts[id].user_id = u} \cup
  UNION {{id \in DOMAIN conn[c].carts : conn[c].carts[id].user_id = u} : c \in Conns}

\* C26: the get-or-create step never creates a second cart for an owner, and
\* once two checkouts of one owner have both answered 200 their two cart
\* lines lie in that one cart.
C26_OneCartPerOwner ==
  /\ \A r \in Reqs : Cardinality(OwnerCarts(req[r].userId)) <= 1
  /\ \A r, q \in Reqs :
       (/\ Finished(r) /\ Finished(q)
        /\ req[r].status = 200 /\ req[q].status = 200
        /\ req[r].userId = req[q].userId) =>
         req[r].cartId = req[q].cartId

\* the request has failed: its catch block or early return is reached
Failing(q) ==
  \/ req[q].pc = "rollback"
  \/ req[q].pc = "done" /\ req[q].status \notin {200, 201}

\* C27: transaction control statements affect only the writes of the request
\* that issues them.  The ROLLBACK of one request removes no build row and
\* no cart line written by another request, and the COMMIT of one request
\* makes durable no build row and no cart line of another request that has
\* failed.
C27_TransactionControlPerRequest ==
  [][\A r \in Reqs :
       /\ (At(r, "rollback") /\ req'[r].pc = "done") =>
            /\ \A b \in WrittenBuilds : b.by # r => b \in WrittenBuilds'
            /\ \A i \in WrittenItems : i.by # r => i \in WrittenItems'
       /\ (At(r, "commit") /\ req'[r].pc = "done") =>
            /\ \A b \in custom_pc_builds' \ custom_pc_builds :
                 b.by = r \/ ~Failing(b.by)
            /\ \A i \in cart_items' \ cart_items :
                 i.by = r \/ ~Failing(i.by)]_vars

(***************************************************************************)
(* Properties of the cart totals                                           *)
(***************************************************************************)
\* coupon_code of the cart, as any connection reads it
CouponOf(id) ==
  IF id \in DOMAIN carts THEN carts[id].coupon_code
  ELSE LET c == CHOOSE d \in Conns : id \in DOMAIN conn[d].carts
       IN conn[c].carts[id].coupon_code

\* C28: the totals checkoutBuild writes to the cart are the totals
\* calculateCartTotals of the cart module writes for the same cart
\* contents: after the UPDATE of step 4 the cart row, as read on the
\* connection that wrote it, carries the subtotal, discount_amount and
\* total_amount calculateCartTotals computes from the same subtotal and the
\* cart's promo code.
C28_TotalsAsCartModule ==
  [][\A r \in Reqs :
       (At(r, "updateCart") /\ req'[r].pc = "commit") =>
         LET id == req[r].cartId
             expected == calculateCartTotals(req[r].subtotal, CouponOf(id))
         IN \E c \in Conns :
              /\ id \in DOMAIN VisibleCarts(c)'
              /\ VisibleCarts(c)'[id].subtotal = expected.subtotal
              /\ VisibleCarts(c)'[id].discount_amount = expected.discount_amount
              /\ VisibleCarts(c)'[id].total_amount = expected.total_amount]_vars
====
